---- MODULE Spec2Model ----
(***************************************************************************)
(* A model of the block-tree, UTXO set, consensus validator, difficulty    *)
(* engine and mempool of the educational Bitcoin node (src/src/core,       *)
(* src/src/consensus, src/src/mining).                                     *)
(*                                                                         *)
(* Representation.                                                         *)
(*  - A hash is modelled as the hashed content under a tag (double SHA-256 *)
(*    is taken to be collision free): a txid is <<"tx", tx>>, a block hash *)
(*    is <<"blk", header>>, an inner Merkle node is <<"mrk", l, r>>.  The  *)
(*    all-zeros hash "0"*64 is ZeroHash.                                   *)
(*  - An input is <<previous_txid, previous_output_index, script>>, an     *)
(*    output is <<value, pubkey_script>>, a transaction is                 *)
(*    <<inputs, outputs>>, a header is                                     *)
(*    <<previous_block_hash, merkle_root, timestamp, difficulty_bits,      *)
(*      nonce>>.                                                           *)
(*  - Amounts are counted in units of 10^8 satoshis (TLC integers have 32  *)
(*    bits, the subsidy of 50*10^8 satoshis does not fit).                 *)
(*  - A 256-bit target is the pair <<m, k>> standing for m * 256^k.        *)
(***************************************************************************)
EXTENDS Integers, Sequences, FiniteSets, TLC

(***************************************************************************)
(* Program constants                                                       *)
(***************************************************************************)
COINBASE_MATURITY == 100
MEDIAN_TIME_PAST_BLOCKS == 11
MAX_FUTURE_BLOCK_TIME == 7200
MAX_BLOCK_SIZE == 1000000
MAX_ADJUSTMENT_FACTOR == 4
GENESIS_DIFFICULTY_BITS == 486604799
DEV_GENESIS_DIFFICULTY_BITS == 521142271
DEV_DIFFICULTY_ADJUSTMENT_INTERVAL == 10
DEV_TARGET_BLOCK_TIME == 5
HALVING_INTERVAL == 210000
INITIAL_REWARD == 50
genesis_timestamp == 1231006505
COINBASE_INDEX == -1

ZeroHash == <<>>
GenesisAddress == "0"

(***************************************************************************)
(* Bounds of the model                                                     *)
(***************************************************************************)
MaxBlocks == 2
MaxMempool == 2
MaxForkBlocks == 6
MaxChainBlocks == 11
MaxMineBlocks == 11
MaxWalletBlocks == 10
MaxWalletTxs == 2
MaxPoolBlocks == 1
\* max_nonce of Miner.mine_block is 2**32: the search tries the nonces
\* 0 .. max_nonce - 1 before it changes the extra nonce
max_nonce == 3
MaxExtraNonce == 2
MaxTimeBlocks == 12
MaxQueued == 3
MaxExponent == 34
MaxQueryBlocks == 10
MaxQueries == 2

(***************************************************************************)
(* Sequence helpers                                                        *)
(***************************************************************************)
Range(s) == {s[i] : i \in 1..Len(s)}

RECURSIVE SumSeq(_)
SumSeq(s) == IF s = <<>> THEN 0 ELSE Head(s) + SumSeq(Tail(s))

Reverse(s) == [i \in 1..Len(s) |-> s[Len(s) + 1 - i]]

RECURSIVE Pow(_, _)
Pow(b, e) == IF e = 0 THEN 1 ELSE b * Pow(b, e - 1)

(***************************************************************************)
(* Transactions (src/src/core/transaction.py)                              *)
(***************************************************************************)
TransactionInput(previous_txid, previous_output_index, signature_script) ==
    <<previous_txid, previous_output_index, signature_script>>

TransactionOutput(value, pubkey_script) == <<value, pubkey_script>>

Transaction(inputs, outputs) == <<inputs, outputs>>

Inputs(tx) == tx[1]
Outputs(tx) == tx[2]

\* Transaction.txid: double SHA-256 of the serialization
Txid(tx) == <<"tx", tx>>

\* TransactionInput.is_coinbase
InputIsCoinbase(inp) == inp[1] = ZeroHash /\ inp[2] = COINBASE_INDEX

\* Transaction.is_coinbase
IsCoinbase(tx) == Len(Inputs(tx)) = 1 /\ InputIsCoinbase(Inputs(tx)[1])

OutputValues(tx) == [i \in 1..Len(Outputs(tx)) |-> Outputs(tx)[i][1]]

\* Transaction.create_coinbase: the script carries the height and the extra nonce
create_coinbase(block_height, reward_address, reward_amount, extra_nonce) ==
    Transaction(
        << TransactionInput(ZeroHash, COINBASE_INDEX, <<block_height, extra_nonce>>) >>,
        << TransactionOutput(reward_amount, reward_address) >>)

\* len(tx.serialize()): 4 + varint + inputs + varint + outputs + 4, every
\* varint being one byte here; a script takes one byte per element and an
\* address 20 bytes
TxSize(tx) ==
    4 + 1 + SumSeq([i \in 1..Len(Inputs(tx)) |-> 32 + 4 + 1 + Len(Inputs(tx)[i][3]) + 4])
      + 1 + SumSeq([i \in 1..Len(Outputs(tx)) |-> 8 + 1 + 20]) + 4

(***************************************************************************)
(* Blocks (src/src/core/block.py)                                          *)
(***************************************************************************)
BlockHeader(previous_block_hash, merkle_root, timestamp, difficulty_bits, nonce) ==
    <<previous_block_hash, merkle_root, timestamp, difficulty_bits, nonce>>

PrevHash(header) == header[1]
MerkleRootOf(header) == header[2]
Timestamp(header) == header[3]
Bits(header) == header[4]
Nonce(header) == header[5]

\* BlockHeader.hash: double SHA-256 of the 80-byte serialization
HeaderHash(header) == <<"blk", header>>

Block(header, transactions) == [header |-> header, transactions |-> transactions]

\* One level of the Merkle tree: an odd level duplicates its last node
MerkleLevel(level) ==
    LET padded == IF Len(level) % 2 # 0 THEN Append(level, level[Len(level)]) ELSE level
    IN  [i \in 1..(Len(padded) \div 2) |-> <<"mrk", padded[2 * i - 1], padded[2 * i]>>]

RECURSIVE MerkleReduce(_)
MerkleReduce(level) == IF Len(level) <= 1 THEN level[1] ELSE MerkleReduce(MerkleLevel(level))

\* hex_to_bytes(h)[::-1]: the bytes of a hash in the other order
Reversed(h) == IF Len(h) = 2 /\ h[1] = "rev" THEN h[2] ELSE <<"rev", h>>

\* Block.calculate_merkle_root: the leaves are the txids in internal byte
\* order, the root is turned back into display order
calculate_merkle_root(transactions) ==
    IF transactions = <<>> THEN ZeroHash
    ELSE IF Len(transactions) = 1 THEN Txid(transactions[1])
    ELSE Reversed(MerkleReduce([i \in 1..Len(transactions) |-> Reversed(Txid(transactions[i]))]))

\* MerkleTree(hash_list).build_tree(): the layers from the leaves to the root,
\* the leaves being the hashes as they are given
RECURSIVE build_tree(_)
build_tree(layer) ==
    IF Len(layer) <= 1 THEN <<layer>> ELSE <<layer>> \o build_tree(MerkleLevel(layer))

\* MerkleTree.get_root
get_root(tree) == tree[Len(tree)][1]

\* MerkleTree.get_proof(index), index counted from 0, from layer number
\* layer_idx on
RECURSIVE ProofFrom(_, _, _)
ProofFrom(tree, current_index, layer_idx) ==
    IF layer_idx > Len(tree) - 1 THEN <<>>
    ELSE LET layer == IF Len(tree[layer_idx]) % 2 # 0
                      THEN Append(tree[layer_idx], tree[layer_idx][Len(tree[layer_idx])])
                      ELSE tree[layer_idx]
             step == IF current_index % 2 = 0
                     THEN <<"right", layer[current_index + 1 + 1]>>
                     ELSE <<"left", layer[current_index - 1 + 1]>>
         IN  <<step>> \o ProofFrom(tree, current_index \div 2, layer_idx + 1)

get_proof(tree, index) == ProofFrom(tree, index, 1)

\* MerkleTree.verify_proof
RECURSIVE verify_proof(_, _, _)
verify_proof(leaf_hash, proof, root_hash) ==
    IF proof = <<>> THEN leaf_hash = root_hash
    ELSE verify_proof(IF Head(proof)[1] = "left" THEN <<"mrk", Head(proof)[2], leaf_hash>>
                      ELSE <<"mrk", leaf_hash, Head(proof)[2]>>,
                      Tail(proof), root_hash)

\* Block.get_size
get_size(transactions) ==
    80 + 1 + SumSeq([i \in 1..Len(transactions) |-> TxSize(transactions[i])])

(***************************************************************************)
(* Compact targets (src/src/mining/miner.py) and the difficulty engine     *)
(* (src/src/consensus/difficulty.py).  A target is <<m, k>> = m * 256^k.   *)
(***************************************************************************)
RECURSIVE ByteLen(_)
ByteLen(m) == IF m = 0 THEN 0 ELSE 1 + ByteLen(m \div 256)

\* compact_bits_to_target (bits > 0): exponent in the top byte, coefficient in
\* the low 23 bits, a set sign bit makes the target 0
compact_bits_to_target(bits) ==
    LET exponent == (bits \div 16777216) % 256
        coefficient == bits % 8388608
        negative == (bits \div 8388608) % 2 = 1
    IN  IF negative THEN <<0, 0>>
        ELSE IF exponent <= 3 THEN <<coefficient \div Pow(256, 3 - exponent), 0>>
        ELSE <<coefficient, exponent - 3>>

\* target_to_compact_bits that keeps a coefficient with bit 23 set where it is
target_to_compact_bits_unshifted(target) ==
    LET m == target[1]
        len == ByteLen(m)
        coefficient == IF len >= 3 THEN m \div Pow(256, len - 3) ELSE m * Pow(256, 3 - len)
    IN  IF m = 0 THEN 0 ELSE (len + target[2]) * 16777216 + (coefficient % 8388608)

\* target_to_compact_bits: the byte length is the exponent, the top three
\* bytes are the coefficient, a coefficient with bit 23 set is shifted down
target_to_compact_bits(target) ==
    LET m == target[1]
        k == target[2]
        len == ByteLen(m)
        exponent == len + k
        coefficient == IF len >= 3 THEN m \div Pow(256, len - 3) ELSE m * Pow(256, 3 - len)
    IN  IF m = 0 THEN 0
        ELSE IF coefficient >= 8388608
             THEN (exponent + 1) * 16777216 + (coefficient \div 256)
             ELSE exponent * 16777216 + coefficient

\* floor(p * 256^k / d) as a target: the quotient is carried with at least
\* three significant bytes (65536 or more) and its dropped low bytes never
\* reach the coefficient of the compact form
RECURSIVE ScaledDiv(_, _, _)
ScaledDiv(p, k, d) ==
    IF k = 0 \/ p \div d >= 65536 THEN <<p \div d, k>>
    ELSE ScaledDiv(p * 256, k - 1, d)

\* a >= b for a target a whose low bytes may have been dropped and an exact b
TargetAtLeast(a, b) ==
    LET d == a[2] - b[2]
    IN  IF d >= 4 THEN a[1] >= 1 \/ b[1] = 0
        ELSE IF d >= 0 THEN a[1] >= (b[1] + Pow(256, d) - 1) \div Pow(256, d)
        ELSE IF d <= -4 THEN b[1] = 0
        ELSE a[1] \div Pow(256, 0 - d) >= b[1]

\* calculate_next_difficulty with max_target_bits left at its default, as the
\* blockchain calls it
calculate_next_difficulty(block_timestamps, current_bits, target_timespan) ==
    LET raw == block_timestamps[Len(block_timestamps)] - block_timestamps[1]
        min_timespan == target_timespan \div MAX_ADJUSTMENT_FACTOR
        max_timespan == target_timespan * MAX_ADJUSTMENT_FACTOR
        time_taken == IF raw < min_timespan THEN min_timespan
                      ELSE IF raw > max_timespan THEN max_timespan ELSE raw
        old_target == compact_bits_to_target(current_bits)
        new_target == ScaledDiv(old_target[1] * time_taken, old_target[2], target_timespan)
        max_target == compact_bits_to_target(GENESIS_DIFFICULTY_BITS)
        capped == IF TargetAtLeast(new_target, max_target) THEN max_target ELSE new_target
        floored == IF capped[1] < 1 THEN <<1, 0>> ELSE capped
    IN  target_to_compact_bits(floored)

\* should_adjust
should_adjust(height, interval) == height > 0 /\ height % interval = 0

\* get_block_reward
get_block_reward(height) ==
    LET halvings == height \div HALVING_INTERVAL
    IN  IF halvings >= 64 THEN 0 ELSE INITIAL_REWARD \div Pow(2, halvings)


(***************************************************************************)
(* Proof of work (src/src/core/block.py).  SHA-256 is not computed: the    *)
(* integer value of a header hash is a fixed function of the header, here  *)
(* of its nonce alone: nonce 0 hashes above every target, a nonce n > 0    *)
(* hashes to n.                                                            *)
(***************************************************************************)
HashInt(header) == IF Nonce(header) = 0 THEN <<8388607, 29>> ELSE <<Nonce(header), 0>>

\* a <= b for two exact targets
TargetLE(a, b) ==
    LET d == a[2] - b[2]
    IN  IF d >= 4 THEN a[1] = 0
        ELSE IF d >= 0 THEN a[1] <= b[1] \div Pow(256, d)
        ELSE IF d <= -4 THEN b[1] >= 1 \/ a[1] = 0
        ELSE (a[1] + Pow(256, 0 - d) - 1) \div Pow(256, 0 - d) <= b[1]

\* BlockHeader.get_target
get_target(header) == compact_bits_to_target(Bits(header))

\* BlockHeader.meets_difficulty_target: int(hash, 16) <= target
meets_difficulty_target(header) == TargetLE(HashInt(header), get_target(header))

(***************************************************************************)
(* UTXO set (src/src/core/utxo.py): a function from <<txid, index>> to     *)
(* <<value, pubkey_script, block_height, is_coinbase>>                     *)
(***************************************************************************)
EmptyMap == [k \in {} |-> 0]

UTXOEntry(value, pubkey_script, block_height, is_coinbase) ==
    <<value, pubkey_script, block_height, is_coinbase>>

_make_key(txid, index) == <<txid, index>>

has_utxo(utxos, txid, index) == _make_key(txid, index) \in DOMAIN utxos

\* sum(entry.value) over the entries with the given keys
RECURSIVE SumOverKeys(_, _)
SumOverKeys(utxos, keys) ==
    IF keys = {} THEN 0
    ELSE LET k == CHOOSE x \in keys : TRUE
         IN  utxos[k][1] + SumOverKeys(utxos, keys \ {k})

\* UTXOSet.add_utxo: a dictionary store, an existing key is overwritten
add_utxo(utxos, txid, index, output, height, is_coinbase) ==
    LET key == _make_key(txid, index)
    IN  [k \in DOMAIN utxos \cup {key} |->
            IF k = key THEN UTXOEntry(output[1], output[2], height, is_coinbase)
            ELSE utxos[k]]

\* UTXOSet.remove_utxo where the caller swallows the KeyError of a missing key
remove_utxo(utxos, txid, index) ==
    [k \in DOMAIN utxos \ {_make_key(txid, index)} |-> utxos[k]]

\* the outputs of tx, from output number i on, added at a height
RECURSIVE AddOutputs(_, _, _, _, _)
AddOutputs(utxos, tx, i, height, is_coinbase) ==
    IF i > Len(Outputs(tx)) THEN utxos
    ELSE AddOutputs(add_utxo(utxos, Txid(tx), i - 1, Outputs(tx)[i], height, is_coinbase),
                    tx, i + 1, height, is_coinbase)

\* the outpoints consumed by the non-coinbase inputs of tx, from input i on, removed
RECURSIVE RemoveInputs(_, _, _)
RemoveInputs(utxos, tx, i) ==
    IF i > Len(Inputs(tx)) THEN utxos
    ELSE RemoveInputs(
            IF InputIsCoinbase(Inputs(tx)[i]) THEN utxos
            ELSE remove_utxo(utxos, Inputs(tx)[i][1], Inputs(tx)[i][2]),
            tx, i + 1)

\* the outputs of tx removed (missing ones are skipped)
RECURSIVE RemoveOutputs(_, _, _)
RemoveOutputs(utxos, tx, i) ==
    IF i > Len(Outputs(tx)) THEN utxos
    ELSE RemoveOutputs(remove_utxo(utxos, Txid(tx), i - 1), tx, i + 1)

\* Blockchain._apply_block, transactions from number i on
RECURSIVE ApplyTxs(_, _, _, _)
ApplyTxs(utxos, transactions, i, height) ==
    IF i > Len(transactions) THEN utxos
    ELSE LET tx == transactions[i]
             spent == IF IsCoinbase(tx) THEN utxos ELSE RemoveInputs(utxos, tx, 1)
         IN  ApplyTxs(AddOutputs(spent, tx, 1, height, IsCoinbase(tx)), transactions, i + 1, height)

_apply_block(utxos, blk) == ApplyTxs(utxos, blk.transactions, 1, blk.height)

(***************************************************************************)
(* Block storage (src/src/core/blockchain.py).  blocks is the dictionary   *)
(* in insertion order, each entry a record hash, header, transactions,     *)
(* height.                                                                 *)
(***************************************************************************)
HasBlock(blocks, h) == \E i \in 1..Len(blocks) : blocks[i].hash = h

\* get_block answering every lookup with the first stored block
get_block_first(blocks, h) == blocks[1]

\* Blockchain.get_block for a known hash
get_block(blocks, h) == blocks[CHOOSE i \in 1..Len(blocks) : blocks[i].hash = h]

\* Blockchain.get_chain: the blocks from genesis to tip_hash
RECURSIVE get_chain(_, _)
get_chain(blocks, tip_hash) ==
    IF tip_hash = ZeroHash \/ ~HasBlock(blocks, tip_hash) THEN <<>>
    ELSE LET blk == get_block(blocks, tip_hash)
         IN  Append(get_chain(blocks, PrevHash(blk.header)), blk)

\* Blockchain.get_chain_height
get_chain_height(blocks, best) ==
    IF HasBlock(blocks, best) THEN get_block(blocks, best).height ELSE -1

\* Blockchain.get_block_by_height: the hash of the block returned, ZeroHash
\* for None
get_block_by_height(blocks, index, best, height) ==
    LET hashes == IF height \in DOMAIN index THEN index[height] ELSE <<>>
        best_chain_blocks == {get_chain(blocks, best)[i].hash :
                                 i \in 1..Len(get_chain(blocks, best))}
        on_best == {i \in 1..Len(hashes) : hashes[i] \in best_chain_blocks}
    IN  IF hashes = <<>> THEN ZeroHash
        ELSE IF Len(hashes) = 1 THEN hashes[1]
        ELSE IF on_best # {} THEN hashes[CHOOSE i \in on_best : \A j \in on_best : i <= j]
        ELSE hashes[1]

\* Blockchain.get_previous_timestamps: most recent first, at most count
RECURSIVE get_previous_timestamps(_, _, _)
get_previous_timestamps(blocks, block_hash, count) ==
    IF block_hash = ZeroHash \/ count = 0 \/ ~HasBlock(blocks, block_hash) THEN <<>>
    ELSE LET blk == get_block(blocks, block_hash)
         IN  <<Timestamp(blk.header)>>
             \o get_previous_timestamps(blocks, PrevHash(blk.header), count - 1)

\* Blockchain._find_transaction: the first block in insertion order holding txid
BlocksHolding(blocks, txid) ==
    {i \in 1..Len(blocks) :
        \E j \in 1..Len(blocks[i].transactions) : Txid(blocks[i].transactions[j]) = txid}

Min(S) == CHOOSE x \in S : \A y \in S : x <= y
Max(S) == CHOOSE x \in S : \A y \in S : x >= y

_find_transaction(blocks, txid) ==
    LET i == Min(BlocksHolding(blocks, txid))
        j == Min({k \in 1..Len(blocks[i].transactions) : Txid(blocks[i].transactions[k]) = txid})
    IN  blocks[i].transactions[j]

\* the height _unwind_block records for a re-added output: the scan over all
\* blocks keeps the last block that holds the transaction
prev_block_height(blocks, txid) == blocks[Max(BlocksHolding(blocks, txid))].height

\* Blockchain._unwind_block: the inputs of tx, from input i on, re-added
RECURSIVE ReAddInputs(_, _, _, _)
ReAddInputs(utxos, blocks, tx, i) ==
    IF i > Len(Inputs(tx)) THEN utxos
    ELSE LET inp == Inputs(tx)[i]
             found == BlocksHolding(blocks, inp[1]) # {}
             prev_tx == _find_transaction(blocks, inp[1])
             next == IF ~InputIsCoinbase(inp) /\ found /\ inp[2] < Len(Outputs(prev_tx))
                          /\ inp[2] >= 0
                     THEN add_utxo(utxos, inp[1], inp[2], Outputs(prev_tx)[inp[2] + 1],
                                   prev_block_height(blocks, inp[1]), IsCoinbase(prev_tx))
                     ELSE utxos
         IN  ReAddInputs(next, blocks, tx, i + 1)

\* Blockchain._unwind_block, transactions from number i down to 1
RECURSIVE UnwindTxs(_, _, _, _)
UnwindTxs(utxos, blocks, transactions, i) ==
    IF i < 1 THEN utxos
    ELSE LET tx == transactions[i]
             removed == RemoveOutputs(utxos, tx, 1)
             readded == IF IsCoinbase(tx) THEN removed ELSE ReAddInputs(removed, blocks, tx, 1)
         IN  UnwindTxs(readded, blocks, transactions, i - 1)

_unwind_block(utxos, blocks, blk) ==
    UnwindTxs(utxos, blocks, blk.transactions, Len(blk.transactions))


(***************************************************************************)
(* Consensus rules (src/src/consensus/rules.py).  A rule that raises is    *)
(* modelled by the name of the exception, a rule that returns by "ok".     *)
(***************************************************************************)
\* sorted(timestamps): insertion of x into an ascending sequence
RECURSIVE InsertAsc(_, _)
InsertAsc(sorted, x) ==
    IF sorted = <<>> THEN <<x>>
    ELSE IF x < Head(sorted) THEN <<x>> \o sorted
    ELSE <<Head(sorted)>> \o InsertAsc(Tail(sorted), x)

RECURSIVE SortAsc(_)
SortAsc(seq) == IF seq = <<>> THEN <<>> ELSE InsertAsc(SortAsc(Tail(seq)), Head(seq))

\* calculate_median_time of a non-empty list
calculate_median_time(timestamps) ==
    LET sorted_timestamps == SortAsc(timestamps)
        n == Len(sorted_timestamps)
        mid == n \div 2
    IN  IF n % 2 = 1 THEN sorted_timestamps[mid + 1] ELSE sorted_timestamps[mid]

\* previous_timestamps[-MEDIAN_TIME_PAST_BLOCKS:]
LastN(seq, n) == IF Len(seq) <= n THEN seq ELSE SubSeq(seq, Len(seq) - n + 1, Len(seq))

\* validate_timestamp without the median rule
validate_timestamp_future_only(block_timestamp, previous_timestamps, current_time) ==
    IF block_timestamp > current_time + MAX_FUTURE_BLOCK_TIME THEN "ValueError" ELSE "ok"

validate_timestamp(block_timestamp, previous_timestamps, current_time) ==
    IF /\ Len(previous_timestamps) >= MEDIAN_TIME_PAST_BLOCKS
       /\ block_timestamp <=
              calculate_median_time(LastN(previous_timestamps, MEDIAN_TIME_PAST_BLOCKS))
    THEN "ValueError"
    ELSE IF block_timestamp > current_time + MAX_FUTURE_BLOCK_TIME THEN "ValueError"
    ELSE "ok"

validate_block_size(transactions) ==
    IF get_size(transactions) > MAX_BLOCK_SIZE THEN "ValueError" ELSE "ok"

\* validate_coinbase: total_fees stays 0, the subsidy alone bounds the coinbase
validate_coinbase(transactions, expected_height) ==
    LET total_fees == 0
        max_allowed == get_block_reward(expected_height) + total_fees
    IN  IF transactions = <<>> THEN "ValueError"
        ELSE IF ~IsCoinbase(transactions[1]) THEN "ValueError"
        ELSE IF \E i \in 2..Len(transactions) : IsCoinbase(transactions[i]) THEN "ValueError"
        ELSE IF SumSeq(OutputValues(transactions[1])) > max_allowed THEN "ValueError"
        ELSE "ok"

\* validate_coinbase_maturity(txid, output_index, utxo_entry, current_height)
validate_coinbase_maturity(utxo_entry, current_height) ==
    IF ~utxo_entry[4] THEN "ok"
    ELSE IF current_height - utxo_entry[3] < COINBASE_MATURITY THEN "ValueError"
    ELSE "ok"

validate_no_duplicate_txids(transactions) ==
    IF \E i, j \in 1..Len(transactions) : i < j /\ Txid(transactions[i]) = Txid(transactions[j])
    THEN "ValueError" ELSE "ok"

(***************************************************************************)
(* Transaction validation (src/src/consensus/validation.py)                *)
(***************************************************************************)
\* the call validate_coinbase_maturity(txid, index, utxo, current_height,
\* maturity=coinbase_maturity) of validate_transaction: the function has no
\* parameter named maturity, the call raises TypeError before its body runs
CallCoinbaseMaturity(utxo_entry, current_height, maturity) == "TypeError"

\* validate_transaction_signature: an empty or one-word script is let through,
\* otherwise the ECDSA verification decides (the first word of a script is 1
\* for a signature that verifies)
validate_transaction_signature(tx, input_index, utxos) ==
    LET inp == Inputs(tx)[input_index]
    IN  IF ~has_utxo(utxos, inp[1], inp[2]) THEN FALSE
        ELSE IF Len(inp[3]) < 2 THEN TRUE
        ELSE inp[3][1] = 1

\* step 3 and 4 of validate_transaction, inputs from number i on: the outcome
\* and the input value summed so far
RECURSIVE CheckInputs(_, _, _, _, _)
CheckInputs(tx, utxos, current_height, i, total) ==
    IF i > Len(Inputs(tx)) THEN <<"ok", total>>
    ELSE LET inp == Inputs(tx)[i]
         IN  IF InputIsCoinbase(inp) THEN <<"ValidationError", total>>
             ELSE IF ~has_utxo(utxos, inp[1], inp[2]) THEN <<"ValidationError", total>>
             ELSE LET utxo == utxos[_make_key(inp[1], inp[2])]
                      r == CallCoinbaseMaturity(utxo, current_height, COINBASE_MATURITY)
                  IN  IF r # "ok" THEN <<r, total>>
                      ELSE CheckInputs(tx, utxos, current_height, i + 1, total + utxo[1])

validate_transaction(tx, utxos, current_height) ==
    IF IsCoinbase(tx) THEN "ValidationError"
    ELSE IF Len(Inputs(tx)) = 0 THEN "ValidationError"
    ELSE IF Len(Outputs(tx)) = 0 THEN "ValidationError"
    ELSE LET ins == CheckInputs(tx, utxos, current_height, 1, 0)
         IN  IF ins[1] # "ok" THEN ins[1]
             ELSE IF \E i \in 1..Len(Inputs(tx)) : ~validate_transaction_signature(tx, i, utxos)
                  THEN "ValidationError"
             ELSE IF SumSeq(OutputValues(tx)) > ins[2] THEN "ValidationError"
             ELSE IF \E i \in 1..Len(Outputs(tx)) : Outputs(tx)[i][1] < 0 THEN "ValidationError"
             ELSE "ok"

\* validate_block_transactions, transactions from number i on, against the
\* working copy of the UTXO set
RECURSIVE ValidateTxsFrom(_, _, _, _)
ValidateTxsFrom(transactions, working_utxo, block_height, i) ==
    IF i > Len(transactions) THEN "ok"
    ELSE LET tx == transactions[i]
         IN  IF i = 1 /\ IsCoinbase(tx)
             THEN ValidateTxsFrom(transactions, working_utxo, block_height, i + 1)
             ELSE LET r == validate_transaction(tx, working_utxo, block_height)
                  IN  IF r # "ok" THEN r
                      ELSE ValidateTxsFrom(transactions,
                               AddOutputs(RemoveInputs(working_utxo, tx, 1), tx, 1,
                                          block_height, FALSE),
                               block_height, i + 1)

validate_block_transactions(transactions, utxos, block_height) ==
    ValidateTxsFrom(transactions, utxos, block_height, 1)


(***************************************************************************)
(* Mempool (src/src/core/mempool.py): transactions is the dictionary in    *)
(* insertion order, fee_index the list of <<fee, size, txid>> where        *)
(* fee / size is the fee rate (the rate 0.0 is <<0, 1, txid>>).            *)
(***************************************************************************)
EmptyMempool == [transactions |-> <<>>, fee_index |-> <<>>]

MempoolTxids(mp) == {Txid(mp.transactions[i]) : i \in 1..Len(mp.transactions)}

\* is_double_spend that finds no conflict
is_double_spend_never(mp, tx) == FALSE

\* Mempool.is_double_spend
is_double_spend(mp, tx) ==
    LET spent_outputs ==
            UNION {{<<inp[1], inp[2]>> : inp \in {x \in Range(Inputs(t)) : ~InputIsCoinbase(x)}} :
                      t \in Range(mp.transactions)}
    IN  \E k \in 1..Len(Inputs(tx)) :
            /\ ~InputIsCoinbase(Inputs(tx)[k])
            /\ <<Inputs(tx)[k][1], Inputs(tx)[k][2]>> \in spent_outputs

\* Mempool._calculate_fee_rate with a UTXO set given
_calculate_fee_rate(tx, utxos) ==
    LET resolved == \A k \in 1..Len(Inputs(tx)) :
                        /\ ~InputIsCoinbase(Inputs(tx)[k])
                        /\ has_utxo(utxos, Inputs(tx)[k][1], Inputs(tx)[k][2])
        total_input_value ==
            SumSeq([k \in 1..Len(Inputs(tx)) |-> utxos[_make_key(Inputs(tx)[k][1], Inputs(tx)[k][2])][1]])
        fee == total_input_value - SumSeq(OutputValues(tx))
    IN  IF ~resolved THEN <<0, 1>>
        ELSE IF fee <= 0 THEN <<0, 1>>
        ELSE <<fee, TxSize(tx)>>

\* rate of entry a is strictly below the rate of entry b
RateLess(a, b) == a[1] * b[2] < b[1] * a[2]

\* list.sort(key=rate, reverse=True): stable, entries of equal rate keep their order
RECURSIVE InsertDesc(_, _)
InsertDesc(sorted, e) ==
    IF sorted = <<>> THEN <<e>>
    ELSE IF RateLess(Head(sorted), e) THEN <<e>> \o sorted
    ELSE <<Head(sorted)>> \o InsertDesc(Tail(sorted), e)

\* the fee index left in the order of arrival
SortDesc_arrival(seq) == seq

RECURSIVE SortDesc(_)
SortDesc(seq) ==
    IF seq = <<>> THEN <<>>
    ELSE InsertDesc(SortDesc(SubSeq(seq, 1, Len(seq) - 1)), seq[Len(seq)])

\* add_transaction without its three refusals
add_transaction_unchecked(mp, tx, utxos) ==
    LET fee_rate == _calculate_fee_rate(tx, utxos)
    IN  [mempool |->
            [transactions |-> Append(mp.transactions, tx),
             fee_index |-> SortDesc(Append(mp.fee_index,
                                           <<fee_rate[1], fee_rate[2], Txid(tx)>>))],
         result |-> TRUE]

\* Mempool.add_transaction: the mempool afterwards and the returned flag
add_transaction(mp, tx, utxos) ==
    IF Txid(tx) \in MempoolTxids(mp) THEN [mempool |-> mp, result |-> FALSE]
    ELSE IF IsCoinbase(tx) THEN [mempool |-> mp, result |-> FALSE]
    ELSE IF is_double_spend(mp, tx) THEN [mempool |-> mp, result |-> FALSE]
    ELSE LET fee_rate == _calculate_fee_rate(tx, utxos)
         IN  [mempool |->
                 [transactions |-> Append(mp.transactions, tx),
                  fee_index |-> SortDesc(Append(mp.fee_index,
                                                <<fee_rate[1], fee_rate[2], Txid(tx)>>))],
              result |-> TRUE]

\* Mempool.remove_transaction
remove_transaction(mp, txid) ==
    [transactions |-> SelectSeq(mp.transactions, LAMBDA t : Txid(t) # txid),
     fee_index |-> IF txid \in MempoolTxids(mp)
                   THEN SelectSeq(mp.fee_index, LAMBDA e : e[3] # txid)
                   ELSE mp.fee_index]

\* Mempool.clear_confirmed, transactions of the block from number i on
RECURSIVE ClearFrom(_, _, _)
ClearFrom(mp, transactions, i) ==
    IF i > Len(transactions) THEN mp
    ELSE ClearFrom(IF IsCoinbase(transactions[i]) THEN mp
                   ELSE remove_transaction(mp, Txid(transactions[i])),
                   transactions, i + 1)

clear_confirmed(mp, blk) == ClearFrom(mp, blk.transactions, 1)

\* Mempool.get_transactions(limit): limit is <<>> for None and <<n>> for n;
\* the txids of the fee index, cut to the limit, then those still in the
\* dictionary
get_transactions(mp, limit) ==
    LET ordered_txids == [i \in 1..Len(mp.fee_index) |-> mp.fee_index[i][3]]
        cut == IF limit = <<>> \/ limit[1] >= Len(ordered_txids) THEN ordered_txids
               ELSE SubSeq(ordered_txids, 1, limit[1])
        present == SelectSeq(cut, LAMBDA txid : txid \in MempoolTxids(mp))
    IN  [i \in 1..Len(present) |->
            CHOOSE t \in Range(mp.transactions) : Txid(t) = present[i]]


(***************************************************************************)
(* The blockchain (src/src/core/blockchain.py) in development mode.  The   *)
(* state of a Blockchain object is a record s with the fields blocks,      *)
(* block_height_index, chain_tips, best_chain_tip, utxo_set, mempool and   *)
(* difficulty_bits; every method is an operator from the state before to   *)
(* the state after.                                                        *)
(***************************************************************************)
adjustment_interval == DEV_DIFFICULTY_ADJUSTMENT_INTERVAL
target_timespan == DEV_DIFFICULTY_ADJUSTMENT_INTERVAL * DEV_TARGET_BLOCK_TIME

\* Blockchain._get_next_difficulty: <<returned bits, stored _difficulty_bits afterwards>>
_get_next_difficulty(s, height) ==
    LET chain == get_chain(s.blocks, s.best_chain_tip)
        interval_start == IF Len(chain) - adjustment_interval > 0
                          THEN Len(chain) - adjustment_interval ELSE 0
        block_timestamps == [i \in 1..(Len(chain) - interval_start) |->
                                Timestamp(chain[interval_start + i].header)]
        new_bits == calculate_next_difficulty(block_timestamps, s.difficulty_bits, target_timespan)
    IN  IF height = 0 THEN <<s.difficulty_bits, s.difficulty_bits>>
        ELSE IF ~should_adjust(height, adjustment_interval)
             THEN <<s.difficulty_bits, s.difficulty_bits>>
        ELSE IF Len(chain) < 2 THEN <<s.difficulty_bits, s.difficulty_bits>>
        ELSE IF Len(block_timestamps) < 2 THEN <<s.difficulty_bits, s.difficulty_bits>>
        ELSE <<new_bits, new_bits>>

\* Blockchain.get_current_difficulty
get_current_difficulty(s) ==
    _get_next_difficulty(s, get_chain_height(s.blocks, s.best_chain_tip) + 1)

\* validate_block without its second rule: the previous block is not looked up
validate_block_parent_unchecked(s, block, current_time) ==
    LET prev_hash == PrevHash(block.header)
        is_genesis == prev_hash = ZeroHash
        expected_height == IF is_genesis THEN 0
                           ELSE IF HasBlock(s.blocks, prev_hash)
                                THEN get_block(s.blocks, prev_hash).height + 1
                           ELSE get_chain_height(s.blocks, s.best_chain_tip) + 1
        previous_timestamps == get_previous_timestamps(s.blocks, prev_hash, 11)
        txs == validate_block_transactions(block.transactions, s.utxo_set, expected_height)
        next == _get_next_difficulty(s, expected_height)
        rejected(rule) == [result |-> rule, difficulty_bits |-> s.difficulty_bits]
    IN  IF ~meets_difficulty_target(block.header) THEN rejected("pow")
        ELSE IF calculate_merkle_root(block.transactions) # MerkleRootOf(block.header)
             THEN rejected("merkle")
        ELSE IF /\ ~is_genesis
                /\ validate_timestamp(Timestamp(block.header), previous_timestamps,
                                      current_time) # "ok"
             THEN rejected("timestamp")
        ELSE IF validate_block_size(block.transactions) # "ok" THEN rejected("size")
        ELSE IF validate_coinbase(block.transactions, expected_height) # "ok"
             THEN rejected("coinbase")
        ELSE IF ~is_genesis /\ txs \in {"ValidationError", "ValueError"}
             THEN rejected("transactions")
        ELSE IF validate_no_duplicate_txids(block.transactions) # "ok"
             THEN rejected("duplicate_txids")
        ELSE IF ~is_genesis /\ Bits(block.header) # next[1]
             THEN [result |-> "difficulty", difficulty_bits |-> next[2]]
        ELSE [result |-> "ok",
              difficulty_bits |-> IF is_genesis THEN s.difficulty_bits ELSE next[2]]

\* validate_block (src/src/consensus/validation.py): the rule that rejected
\* the block, or "ok", and the stored _difficulty_bits afterwards
validate_block(s, block, current_time) ==
    LET prev_hash == PrevHash(block.header)
        is_genesis == prev_hash = ZeroHash
        expected_height == IF is_genesis THEN 0
                           ELSE IF HasBlock(s.blocks, prev_hash)
                                THEN get_block(s.blocks, prev_hash).height + 1
                           ELSE get_chain_height(s.blocks, s.best_chain_tip) + 1
        previous_timestamps == get_previous_timestamps(s.blocks, prev_hash, 11)
        txs == validate_block_transactions(block.transactions, s.utxo_set, expected_height)
        next == _get_next_difficulty(s, expected_height)
        rejected(rule) == [result |-> rule, difficulty_bits |-> s.difficulty_bits]
    IN  IF ~meets_difficulty_target(block.header) THEN rejected("pow")
        ELSE IF ~is_genesis /\ ~HasBlock(s.blocks, prev_hash) THEN rejected("parent")
        ELSE IF calculate_merkle_root(block.transactions) # MerkleRootOf(block.header)
             THEN rejected("merkle")
        ELSE IF /\ ~is_genesis
                /\ validate_timestamp(Timestamp(block.header), previous_timestamps,
                                      current_time) # "ok"
             THEN rejected("timestamp")
        ELSE IF validate_block_size(block.transactions) # "ok" THEN rejected("size")
        ELSE IF validate_coinbase(block.transactions, expected_height) # "ok"
             THEN rejected("coinbase")
        ELSE IF ~is_genesis /\ txs \in {"ValidationError", "ValueError"}
             THEN rejected("transactions")
        ELSE IF validate_no_duplicate_txids(block.transactions) # "ok"
             THEN rejected("duplicate_txids")
        ELSE IF ~is_genesis /\ Bits(block.header) # next[1]
             THEN [result |-> "difficulty", difficulty_bits |-> next[2]]
        ELSE [result |-> "ok",
              difficulty_bits |-> IF is_genesis THEN s.difficulty_bits ELSE next[2]]

\* Blockchain._detect_fork: another stored block has the same parent
_detect_fork(blocks, block_hash, prev_hash) ==
    /\ prev_hash # ZeroHash
    /\ \E i \in 1..Len(blocks) :
          blocks[i].hash # block_hash /\ PrevHash(blocks[i].header) = prev_hash

\* the hashes from h back to the first block
RECURSIVE Ancestry(_, _)
Ancestry(blocks, h) ==
    IF h = ZeroHash THEN <<>>
    ELSE IF ~HasBlock(blocks, h) THEN <<h>>
    ELSE <<h>> \o Ancestry(blocks, PrevHash(get_block(blocks, h).header))

\* Blockchain._find_common_ancestor: ZeroHash stands for None
_find_common_ancestor(blocks, hash_a, hash_b) ==
    LET chain_a_hashes == Range(Ancestry(blocks, hash_a))
        chain_b == Ancestry(blocks, hash_b)
        common == {i \in 1..Len(chain_b) : chain_b[i] \in chain_a_hashes}
    IN  IF common = {} THEN ZeroHash ELSE chain_b[Min(common)]

\* the blocks from tip back to, and without, the ancestor
RECURSIVE BlocksBackTo(_, _, _)
BlocksBackTo(blocks, tip, ancestor) ==
    IF tip = ancestor THEN <<>>
    ELSE LET blk == get_block(blocks, tip)
         IN  <<blk>> \o BlocksBackTo(blocks, PrevHash(blk.header), ancestor)

\* the non-coinbase transactions of an unwound block go back to the mempool
RECURSIVE RequeueFrom(_, _, _, _)
RequeueFrom(mp, transactions, utxos, i) ==
    IF i > Len(transactions) THEN mp
    ELSE RequeueFrom(IF IsCoinbase(transactions[i]) THEN mp
                     ELSE add_transaction(mp, transactions[i], utxos).mempool,
                     transactions, utxos, i + 1)

\* first loop of _reorganize_chain, blocks_to_unwind from number i on
RECURSIVE UnwindAll(_, _, _)
UnwindAll(s, blocks_to_unwind, i) ==
    IF i > Len(blocks_to_unwind) THEN s
    ELSE LET utxos == _unwind_block(s.utxo_set, s.blocks, blocks_to_unwind[i])
             mp == RequeueFrom(s.mempool, blocks_to_unwind[i].transactions, utxos, 1)
         IN  UnwindAll([s EXCEPT !.utxo_set = utxos, !.mempool = mp], blocks_to_unwind, i + 1)

\* second loop of _reorganize_chain, blocks_to_apply from number i on
RECURSIVE ApplyAll(_, _, _)
ApplyAll(s, blocks_to_apply, i) ==
    IF i > Len(blocks_to_apply) THEN s
    ELSE ApplyAll([s EXCEPT !.utxo_set = _apply_block(s.utxo_set, blocks_to_apply[i]),
                            !.mempool = clear_confirmed(s.mempool, blocks_to_apply[i])],
                  blocks_to_apply, i + 1)

\* Blockchain._reorganize_chain
_reorganize_chain(s, new_tip_hash) ==
    LET old_tip_hash == s.best_chain_tip
        common_ancestor_hash == _find_common_ancestor(s.blocks, old_tip_hash, new_tip_hash)
        blocks_to_unwind == BlocksBackTo(s.blocks, old_tip_hash, common_ancestor_hash)
        blocks_to_apply == Reverse(BlocksBackTo(s.blocks, new_tip_hash, common_ancestor_hash))
        unwound == UnwindAll(s, blocks_to_unwind, 1)
        applied == ApplyAll(unwound, blocks_to_apply, 1)
    IN  IF common_ancestor_hash = ZeroHash THEN s
        ELSE [applied EXCEPT !.best_chain_tip = new_tip_hash]

\* add_block without lines 253-254: the parent stays among the chain tips
add_block_parent_stays_tip(s, block, current_time) ==
    LET block_hash == HeaderHash(block.header)
        prev_hash == PrevHash(block.header)
        height == IF prev_hash = ZeroHash THEN 0
                  ELSE IF HasBlock(s.blocks, prev_hash)
                       THEN get_block(s.blocks, prev_hash).height + 1
                  ELSE get_chain_height(s.blocks, s.best_chain_tip) + 1
        stored == [hash |-> block_hash, header |-> block.header,
                   transactions |-> block.transactions, height |-> height]
        index == [h \in DOMAIN s.block_height_index \cup {height} |->
                     IF h \in DOMAIN s.block_height_index
                     THEN IF h = height THEN Append(s.block_height_index[h], block_hash)
                          ELSE s.block_height_index[h]
                     ELSE <<block_hash>>]
        tips == Append(s.chain_tips, block_hash)
        is_fork == _detect_fork(Append(s.blocks, stored), block_hash, prev_hash)
        extend(linked) == [linked EXCEPT !.best_chain_tip = block_hash,
                                         !.utxo_set = _apply_block(s.utxo_set, stored),
                                         !.mempool = clear_confirmed(s.mempool, stored)]
        link(checked) == [checked EXCEPT !.blocks = Append(s.blocks, stored),
                                         !.block_height_index = index,
                                         !.chain_tips = tips]
        store(checked, linked) ==
            IF prev_hash = s.best_chain_tip THEN [state |-> extend(linked), result |-> TRUE]
            ELSE IF is_fork
                 THEN IF height > get_chain_height(s.blocks, s.best_chain_tip)
                      THEN [state |-> _reorganize_chain(linked, block_hash), result |-> TRUE]
                      ELSE [state |-> linked, result |-> TRUE]
            ELSE [state |-> extend(linked), result |-> TRUE]
        after(validation, checked) ==
            IF validation.result # "ok" THEN [state |-> checked, result |-> FALSE]
            ELSE store(checked, link(checked))
        validated(validation) ==
            after(validation, [s EXCEPT !.difficulty_bits = validation.difficulty_bits])
    IN  IF HasBlock(s.blocks, block_hash) THEN [state |-> s, result |-> FALSE]
        ELSE validated(validate_block(s, block, current_time))

\* Blockchain.add_block: the state afterwards and the returned flag
add_block(s, block, current_time) ==
    LET block_hash == HeaderHash(block.header)
        prev_hash == PrevHash(block.header)
        height == IF prev_hash = ZeroHash THEN 0
                  ELSE IF HasBlock(s.blocks, prev_hash)
                       THEN get_block(s.blocks, prev_hash).height + 1
                  ELSE get_chain_height(s.blocks, s.best_chain_tip) + 1
        stored == [hash |-> block_hash, header |-> block.header,
                   transactions |-> block.transactions, height |-> height]
        index == [h \in DOMAIN s.block_height_index \cup {height} |->
                     IF h \in DOMAIN s.block_height_index
                     THEN IF h = height THEN Append(s.block_height_index[h], block_hash)
                          ELSE s.block_height_index[h]
                     ELSE <<block_hash>>]
        tips == Append(SelectSeq(s.chain_tips, LAMBDA t : t # prev_hash), block_hash)
        is_fork == _detect_fork(Append(s.blocks, stored), block_hash, prev_hash)
        extend(linked) == [linked EXCEPT !.best_chain_tip = block_hash,
                                         !.utxo_set = _apply_block(s.utxo_set, stored),
                                         !.mempool = clear_confirmed(s.mempool, stored)]
        link(checked) == [checked EXCEPT !.blocks = Append(s.blocks, stored),
                                         !.block_height_index = index,
                                         !.chain_tips = tips]
        store(checked, linked) ==
            IF prev_hash = s.best_chain_tip THEN [state |-> extend(linked), result |-> TRUE]
            ELSE IF is_fork
                 THEN IF height > get_chain_height(s.blocks, s.best_chain_tip)
                      THEN [state |-> _reorganize_chain(linked, block_hash), result |-> TRUE]
                      ELSE [state |-> linked, result |-> TRUE]
            ELSE [state |-> extend(linked), result |-> TRUE]
        after(validation, checked) ==
            IF validation.result # "ok" THEN [state |-> checked, result |-> FALSE]
            ELSE store(checked, link(checked))
        validated(validation) ==
            after(validation, [s EXCEPT !.difficulty_bits = validation.difficulty_bits])
    IN  IF HasBlock(s.blocks, block_hash) THEN [state |-> s, result |-> FALSE]
        ELSE validated(validate_block(s, block, current_time))

\* create_block_template (src/src/mining/miner.py): now is the reading of
\* time.time() taken for the header, the nonce starts at 0
create_block_template(previous_block_hash, height, bits, transactions, coinbase_address, reward_amount, now) ==
    LET all_transactions == <<create_coinbase(height, coinbase_address, reward_amount, 0)>>
                                \o transactions
    IN  Block(BlockHeader(previous_block_hash, calculate_merkle_root(all_transactions),
                          now, bits, 0),
              all_transactions)

\* the header with another nonce
WithNonce(header, nonce) ==
    BlockHeader(PrevHash(header), MerkleRootOf(header), Timestamp(header), Bits(header), nonce)

\* Miner.mine_block: the first nonce whose hash is strictly below the target
\* (the search ends within the nonces 0 and 1 for every target above 1)
mine_block(block) ==
    LET found == {nonce \in 0..1 :
                     ~TargetLE(compact_bits_to_target(Bits(block.header)),
                               HashInt(WithNonce(block.header, nonce)))}
    IN  Block(WithNonce(block.header, Min(found)), block.transactions)

\* Blockchain.mine_next_block(coinbase_address) with the transactions drawn
\* from the mempool: the state afterwards, the block mined and whether it was
\* returned (False stands for None)
mine_next_block(s, coinbase_address, now) ==
    LET prev_hash == s.best_chain_tip
        height == get_chain_height(s.blocks, s.best_chain_tip) + 1
        reward == get_block_reward(height)
        transactions == get_transactions(s.mempool, <<>>)
        mined(block, added) == [state |-> added.state, block |-> block, result |-> added.result]
        submit(asked, block) == mined(block, add_block(asked, block, now))
        mine(next) ==
            submit([s EXCEPT !.difficulty_bits = next[2]],
                   mine_block(create_block_template(prev_hash, height, next[1], transactions,
                                                    coinbase_address, reward, now)))
    IN  mine(_get_next_difficulty(s, height))


(***************************************************************************)
(* The wallet (src/src/wallet/wallet.py) with one key pair: owner is the   *)
(* public key hash its outputs are locked to.                              *)
(***************************************************************************)
\* UTXOSet.get_utxos_for_address: the keys of the entries locked to address
get_utxos_for_address(utxos, address) == {k \in DOMAIN utxos : utxos[k][2] = address}

\* UTXOSet.get_balance
get_balance(utxos, address) ==
    SumOverKeys(utxos, get_utxos_for_address(utxos, address))

\* the wallet's outputs sorted by value, smallest first; outputs of one value
\* stay in the order in which the growing chain stored them
RECURSIVE CoinsInOrder(_, _)
CoinsInOrder(utxos, keys) ==
    IF keys = {} THEN <<>>
    ELSE LET first == CHOOSE k \in keys : \A j \in keys :
                          \/ utxos[k][1] < utxos[j][1]
                          \/ utxos[k][1] = utxos[j][1] /\ utxos[k][3] <= utxos[j][3]
         IN  <<first>> \o CoinsInOrder(utxos, keys \ {first})

\* Wallet._select_coins: the selected keys, or "ValueError" for insufficient funds
_select_coins(utxos, owner, amount, fee) ==
    LET coins == CoinsInOrder(utxos, get_utxos_for_address(utxos, owner))
        total(n) == SumSeq([i \in 1..n |-> utxos[coins[i]][1]])
        enough == {n \in 1..Len(coins) : total(n) >= amount + fee}
    IN  IF enough = {} THEN "ValueError" ELSE SubSeq(coins, 1, Min(enough))

\* Wallet.create_transaction for selected coins: the recipient's output, then
\* the change back to the wallet
create_transaction(utxos, selected, owner, to_address, amount, fee) ==
    LET change == SumSeq([i \in 1..Len(selected) |-> utxos[selected[i]][1]]) - amount - fee
    IN  Transaction([i \in 1..Len(selected) |->
                        TransactionInput(selected[i][1], selected[i][2], <<>>)],
                    <<TransactionOutput(amount, to_address)>>
                        \o (IF change > 0 THEN <<TransactionOutput(change, owner)>> ELSE <<>>))

\* Wallet.sign_transaction: every input gets signature and public key joined
\* into one word
sign_transaction(tx) ==
    Transaction([i \in 1..Len(Inputs(tx)) |->
                    IF InputIsCoinbase(Inputs(tx)[i]) THEN Inputs(tx)[i]
                    ELSE TransactionInput(Inputs(tx)[i][1], Inputs(tx)[i][2], <<1>>)],
                Outputs(tx))

\* Wallet.send: the state afterwards, the transaction returned, and whether
\* the call returned (False stands for the ValueError of _select_coins)
send(s, owner, to_address, amount, fee) ==
    LET selected == _select_coins(s.utxo_set, owner, amount, fee)
        tx == sign_transaction(create_transaction(s.utxo_set, selected, owner, to_address,
                                                  amount, fee))
    IN  IF selected = "ValueError" THEN [state |-> s, tx |-> <<>>, result |-> FALSE]
        ELSE [state |-> [s EXCEPT !.mempool = add_transaction(s.mempool, tx, s.utxo_set).mempool],
              tx |-> tx, result |-> TRUE]


(***************************************************************************)
(* State: the fields of the Blockchain object, and what the last call      *)
(* returned.                                                               *)
(***************************************************************************)
VARIABLES blocks, block_height_index, chain_tips, best_chain_tip, utxo_set, mempool,
          difficulty_bits, returned, miner

state_vars == <<blocks, block_height_index, chain_tips, best_chain_tip, utxo_set, mempool,
                difficulty_bits>>
vars == <<blocks, block_height_index, chain_tips, best_chain_tip, utxo_set, mempool,
          difficulty_bits, returned, miner>>

\* the Blockchain object as a record
Self ==
    [blocks |-> blocks, block_height_index |-> block_height_index, chain_tips |-> chain_tips,
     best_chain_tip |-> best_chain_tip, utxo_set |-> utxo_set, mempool |-> mempool,
     difficulty_bits |-> difficulty_bits]

SelfAfter(s) ==
    /\ blocks' = s.blocks
    /\ block_height_index' = s.block_height_index
    /\ chain_tips' = s.chain_tips
    /\ best_chain_tip' = s.best_chain_tip
    /\ utxo_set' = s.utxo_set
    /\ mempool' = s.mempool
    /\ difficulty_bits' = s.difficulty_bits

\* Blockchain._create_genesis_block
genesis_coinbase == create_coinbase(0, GenesisAddress, get_block_reward(0), 0)

genesis_header ==
    BlockHeader(ZeroHash, calculate_merkle_root(<<genesis_coinbase>>), genesis_timestamp,
                DEV_GENESIS_DIFFICULTY_BITS, 0)

genesis_block ==
    [hash |-> HeaderHash(genesis_header), header |-> genesis_header,
     transactions |-> <<genesis_coinbase>>, height |-> 0]

\* no Miner and no candidate block have been created yet. Afterwards miner
\* holds a Miner (_mining), the Block it works on (header, the cache _hash of
\* header.hash, transactions, the cache _txid of the first transaction; ZeroHash
\* stands for None), the locals of mine_block (target, nonce, extra_nonce),
\* the position pc in mine_block, whether stop() was called while the
\* search loop was running (stopped), and whether it was called after
\* mine_block was entered and before its first statement (early_stop)
NoMiner ==
    [pc |-> "none", _mining |-> FALSE, header |-> <<>>, _hash |-> ZeroHash,
     transactions |-> <<>>, _txid |-> ZeroHash, target |-> <<0, 0>>, nonce |-> 0,
     extra_nonce |-> 0, stopped |-> FALSE, early_stop |-> FALSE]

\* Blockchain.__init__(development_mode=True)
Init ==
    /\ blocks = <<genesis_block>>
    /\ block_height_index = [h \in {0} |-> <<genesis_block.hash>>]
    /\ chain_tips = <<genesis_block.hash>>
    /\ best_chain_tip = genesis_block.hash
    /\ utxo_set = _apply_block(EmptyMap, genesis_block)
    /\ mempool = EmptyMempool
    /\ difficulty_bits = DEV_GENESIS_DIFFICULTY_BITS
    /\ returned = [op |-> "init", result |-> TRUE]
    /\ miner = NoMiner


(***************************************************************************)
(* Inputs.  Blocks are assembled as a miner assembles them: a coinbase     *)
(* paying the subsidy, the payload, the Merkle root of both, a nonce that  *)
(* satisfies the target.  The faulty blocks break one rule each.           *)
(***************************************************************************)
Addresses == {"a", "b"}

\* readings of the wall clock, int(time.time())
Clock == {genesis_timestamp + 1000}

\* a timestamp more than MAX_FUTURE_BLOCK_TIME ahead of every clock reading
TooFarAhead == Max(Clock) + MAX_FUTURE_BLOCK_TIME + 1

MakeBlock(prev_hash, transactions, timestamp, bits, nonce) ==
    Block(BlockHeader(prev_hash, calculate_merkle_root(transactions), timestamp, bits, nonce),
          transactions)

Coinbase(height, address) == create_coinbase(height, address, get_block_reward(height), 0)

\* a well-formed block on a stored parent
Template(parent, address, payload, bits) ==
    MakeBlock(parent.hash, <<Coinbase(parent.height + 1, address)>> \o payload,
              Timestamp(parent.header) + DEV_TARGET_BLOCK_TIME, bits, 1)

CoinbaseOutpoint(blk) == <<Txid(blk.transactions[1]), 0>>

\* an unsigned transaction spending one outpoint into one output
Spend(outpoint, value, address) ==
    Transaction(<<TransactionInput(outpoint[1], outpoint[2], <<>>)>>,
                <<TransactionOutput(value, address)>>)

\* an outpoint no block ever created
UnknownOutpoint == <<Txid(Transaction(<<>>, <<>>)), 0>>

\* a transaction spending one outpoint whose second input carries the marker
\* of a coinbase input (all-zeros txid, index 0xffffffff)
MarkedSpend(outpoint, value, address) ==
    Transaction(<<TransactionInput(outpoint[1], outpoint[2], <<>>),
                  TransactionInput(ZeroHash, COINBASE_INDEX, <<>>)>>,
                <<TransactionOutput(value, address)>>)

BestTip == get_block(blocks, best_chain_tip)

Height == get_chain_height(blocks, best_chain_tip)

\* the transactions of the stored blocks
StoredTxs == UNION {Range(blocks[i].transactions) : i \in 1..Len(blocks)}

\* transactions spending the genesis coinbase or the coinbase of the best
\* tip, paying a fee of one unit or creating one unit out of nothing
Txs ==
    {Spend(op, v, "a") : op \in {CoinbaseOutpoint(genesis_block), CoinbaseOutpoint(BestTip)},
                         v \in {INITIAL_REWARD - 1, INITIAL_REWARD + 1}}

Payloads ==
    {<<>>} \cup {<<t>> : t \in Txs}
    \cup {<<Spend(CoinbaseOutpoint(genesis_block), INITIAL_REWARD - 1, "a"),
            Spend(CoinbaseOutpoint(genesis_block), INITIAL_REWARD + 1, "a")>>,
          <<Spend(CoinbaseOutpoint(genesis_block), INITIAL_REWARD - 1, "a"),
            Spend(UnknownOutpoint, 1, "a")>>}

WellFormedBlocks ==
    {Template(blocks[i], "a", payload, difficulty_bits) :
        i \in 1..Len(blocks), payload \in Payloads}
    \cup {MakeBlock(ZeroHash, <<Coinbase(0, "a")>>, genesis_timestamp, difficulty_bits, 1)}

FaultyBlocks ==
    LET good == Template(BestTip, "b", <<>>, difficulty_bits)
        h == BestTip.height + 1
        t == Spend(CoinbaseOutpoint(genesis_block), INITIAL_REWARD - 1, "a")
    IN  { Block(BlockHeader(best_chain_tip, MerkleRootOf(good.header), Timestamp(good.header),
                            difficulty_bits, 0), good.transactions),
          Block(BlockHeader(UnknownOutpoint[1], MerkleRootOf(good.header),
                            Timestamp(good.header), difficulty_bits, 1), good.transactions),
          Block(BlockHeader(best_chain_tip, ZeroHash, Timestamp(good.header),
                            difficulty_bits, 1), good.transactions),
          MakeBlock(best_chain_tip, good.transactions,
                    TooFarAhead, difficulty_bits, 1),
          MakeBlock(best_chain_tip, <<>>, Timestamp(good.header), difficulty_bits, 1),
          MakeBlock(best_chain_tip, <<create_coinbase(h, "b", get_block_reward(h) + 1, 0)>>,
                    Timestamp(good.header), difficulty_bits, 1),
          Template(BestTip, "b", <<Spend(UnknownOutpoint, 1, "a")>>, difficulty_bits),
          Template(BestTip, "b", <<t, t>>, difficulty_bits),
          Template(BestTip, "b", <<>>, GENESIS_DIFFICULTY_BITS) }

\* a call of Blockchain.add_block
CallAddBlock(block, current_time) ==
    \E r \in {add_block(Self, block, current_time)} :
        /\ SelfAfter(r.state)
        /\ returned' = [op |-> "add_block", result |-> r.result,
                        parent_known |-> \/ PrevHash(block.header) = ZeroHash
                                         \/ HasBlock(blocks, PrevHash(block.header))]
        /\ UNCHANGED miner

AddBlock ==
    /\ Len(blocks) <= MaxBlocks
    /\ \E block \in WellFormedBlocks \cup FaultyBlocks, current_time \in Clock :
          CallAddBlock(block, current_time)

\* what callers hand to the mempool: two spends of the genesis coinbase, a
\* coinbase, a spend of an unknown outpoint, two spends with a marked second
\* input
SubmittedTxs ==
    {Spend(CoinbaseOutpoint(genesis_block), v, "a") : v \in {INITIAL_REWARD - 1, INITIAL_REWARD + 1}}
    \cup {Coinbase(1, "a"), Spend(UnknownOutpoint, 1, "a"),
              MarkedSpend(CoinbaseOutpoint(genesis_block), INITIAL_REWARD - 1, "b"),
              MarkedSpend(UnknownOutpoint, 1, "b")}

\* a call of blockchain.mempool.add_transaction(tx, blockchain.utxo_set), while
\* the mempool stays within MaxMempool members
AddTransaction ==
    \E tx \in SubmittedTxs :
          \E r \in {add_transaction(mempool, tx, utxo_set)} :
              /\ Len(r.mempool.transactions) <= MaxMempool
              /\ mempool' = r.mempool
              /\ returned' = [op |-> "add_transaction", result |-> r.result, tx |-> tx]
              /\ UNCHANGED <<blocks, block_height_index, chain_tips, best_chain_tip, utxo_set,
                             difficulty_bits, miner>>

Next == AddBlock \/ AddTransaction

Spec == Init /\ [][Next]_vars


(***************************************************************************)
(* The block tree: blocks on every stored block, two miners, at most one   *)
(* block that carries a transaction (it spends the coinbase of the best    *)
(* tip).                                                                   *)
(***************************************************************************)
ForkPayloads ==
    IF \A i \in 1..Len(blocks) : Len(blocks[i].transactions) = 1
    THEN {<<>>, <<Spend(CoinbaseOutpoint(BestTip), INITIAL_REWARD - 1, "a")>>}
    ELSE {<<>>}

ForkBlocks ==
    {Template(blocks[i], address, payload, difficulty_bits) :
        i \in 1..Len(blocks), address \in Addresses, payload \in ForkPayloads}

AddForkBlock ==
    /\ Len(blocks) <= MaxForkBlocks
    /\ \E block \in ForkBlocks, current_time \in Clock : CallAddBlock(block, current_time)

NextFork == AddForkBlock

SpecFork == Init /\ [][NextFork]_vars


(***************************************************************************)
(* The long chain: blocks on the best tip only, up to the first difficulty *)
(* adjustment and past it.  A block carries the stored difficulty bits,    *)
(* the bits of the genesis block or the bits due at its height.            *)
(***************************************************************************)
Spacings == {6, 30}

ChainBlocks ==
    {MakeBlock(best_chain_tip, <<Coinbase(BestTip.height + 1, "a")>>,
               Timestamp(BestTip.header) + dt, bits, 1) :
        dt \in Spacings,
        bits \in {difficulty_bits, DEV_GENESIS_DIFFICULTY_BITS,
                  _get_next_difficulty(Self, BestTip.height + 1)[1]}}

\* a sibling of the best tip carrying the stored difficulty bits, while no
\* side branch exists
SideBlocks ==
    IF Height >= 1 /\ Len(chain_tips) = 1
    THEN {MakeBlock(PrevHash(BestTip.header), <<Coinbase(BestTip.height, "b")>>,
                    Timestamp(BestTip.header), difficulty_bits, 1)}
    ELSE {}

AddChainBlock ==
    /\ Len(blocks) <= MaxChainBlocks
    /\ \E block \in ChainBlocks \cup SideBlocks, current_time \in Clock :
          CallAddBlock(block, current_time)

NextChain == AddChainBlock

SpecChain == Init /\ [][NextChain]_vars


(***************************************************************************)
(* The mined chain: every block comes from mine_next_block, the mempool is *)
(* empty.  The clock reading of a call lies MineSpacings seconds after the *)
(* timestamp of the best tip; calls go on while they return a block.       *)
(***************************************************************************)
MineSpacings == {5, 6}

\* a call of Blockchain.mine_next_block(coinbase_address)
CallMineNextBlock(coinbase_address, now) ==
    \E r \in {mine_next_block(Self, coinbase_address, now)} :
        /\ SelfAfter(r.state)
        /\ returned' = [op |-> "mine_next_block", result |-> r.result]
        /\ UNCHANGED miner

MineNextBlock ==
    /\ Len(blocks) <= MaxMineBlocks
    /\ returned.result
    /\ \E dt \in MineSpacings : CallMineNextBlock("a", Timestamp(BestTip.header) + dt)

NextMine == MineNextBlock

SpecMine == Init /\ [][NextMine]_vars


(***************************************************************************)
(* Wallet and miner: wallet "a" mines every block, DEV_TARGET_BLOCK_TIME   *)
(* seconds after the last one, and sends to wallet "b" until               *)
(* MaxWalletTxs of its transactions are in blocks.  Mining stops when a    *)
(* call has left the stored difficulty bits different from the tip's.      *)
(***************************************************************************)
\* a call of blockchain.mine_next_block(coinbase_address=hash_a)
MineToWallet ==
    /\ Len(blocks) <= MaxWalletBlocks
    /\ difficulty_bits = Bits(BestTip.header)
    /\ CallMineNextBlock("a", Timestamp(BestTip.header) + DEV_TARGET_BLOCK_TIME)

\* a call of wallet_a.send(addr_b, amount, fee)
WalletSend ==
    /\ Cardinality({t \in StoredTxs : ~IsCoinbase(t)}) < MaxWalletTxs
    /\ \E amount \in 1..2 :
          \E r \in {send(Self, "a", "b", amount, 0)} :
              /\ SelfAfter(r.state)
              /\ returned' = [op |-> "send", result |-> r.result, tx |-> r.tx]
              /\ UNCHANGED miner

NextWallet == MineToWallet \/ WalletSend

SpecWallet == Init /\ [][NextWallet]_vars


(***************************************************************************)
(* The mempool between blocks: callers submit transactions, and blocks are *)
(* mined from the mempool DEV_TARGET_BLOCK_TIME seconds apart.             *)
(***************************************************************************)
\* a call of blockchain.mine_next_block(coinbase_address) drawing from the mempool
MineFromMempool ==
    /\ Len(blocks) <= MaxPoolBlocks
    /\ CallMineNextBlock("a", Timestamp(BestTip.header) + DEV_TARGET_BLOCK_TIME)

NextPool == AddTransaction \/ MineFromMempool

SpecPool == Init /\ [][NextPool]_vars

(***************************************************************************)
(* Export and import (Blockchain.to_dict, Blockchain.import_from_json)     *)
(***************************************************************************)
\* Blockchain.__init__: the state of a fresh instance
Fresh ==
    [blocks |-> <<genesis_block>>, block_height_index |-> [h \in {0} |-> <<genesis_block.hash>>],
     chain_tips |-> <<genesis_block.hash>>, best_chain_tip |-> genesis_block.hash,
     utxo_set |-> _apply_block(EmptyMap, genesis_block), mempool |-> EmptyMempool,
     difficulty_bits |-> DEV_GENESIS_DIFFICULTY_BITS]

\* sorted_blocks.sort(key=height): stable, the blocks of one height keep the
\* order of the dictionary
RECURSIVE InsertByHeight(_, _)
InsertByHeight(sorted, blk) ==
    IF sorted = <<>> THEN <<blk>>
    ELSE IF blk.height < Head(sorted).height THEN <<blk>> \o sorted
    ELSE <<Head(sorted)>> \o InsertByHeight(Tail(sorted), blk)

RECURSIVE SortByHeight(_)
SortByHeight(seq) ==
    IF seq = <<>> THEN <<>>
    ELSE InsertByHeight(SortByHeight(SubSeq(seq, 1, Len(seq) - 1)), seq[Len(seq)])

\* the loop over sorted_blocks, from number i on: blocks of height 0 are
\* skipped, the others handed to add_block whatever it returns
RECURSIVE ImportBlocks(_, _, _, _)
ImportBlocks(s, sorted_blocks, current_time, i) ==
    IF i > Len(sorted_blocks) THEN s
    ELSE IF sorted_blocks[i].height = 0 THEN ImportBlocks(s, sorted_blocks, current_time, i + 1)
    ELSE ImportBlocks(add_block(s, Block(sorted_blocks[i].header, sorted_blocks[i].transactions),
                                current_time).state,
                      sorted_blocks, current_time, i + 1)

\* the loop over the exported mempool transactions, from number i on
RECURSIVE ImportMempool(_, _, _)
ImportMempool(s, transactions, i) ==
    IF i > Len(transactions) THEN s
    ELSE ImportMempool([s EXCEPT !.mempool = add_transaction(s.mempool, transactions[i],
                                                             s.utxo_set).mempool],
                       transactions, i + 1)

\* Blockchain.import_from_json of the export of state s
import_from_json(s, current_time) ==
    ImportMempool(ImportBlocks(Fresh, SortByHeight(s.blocks), current_time, 1),
                  s.mempool.transactions, 1)

(***************************************************************************)
(* The compact form of the stored difficulty: an instance holds any        *)
(* compact value of an exponent up to MaxExponent, and a caller converts   *)
(* it to a target and back.                                                *)
(***************************************************************************)
\* mantissas at the edges of the forms: below and at the shortest form, with
\* and without low bytes, with the sign bit
Mantissas ==
    {0, 1, 255, 32767, 32768, 33024, 65280, 65535, 65536, 1048575, 1179648, 1193046, 8323072,
     8388352, 8388607, 8388608, 8454143}

CompactValues == {exponent * 16777216 + m : exponent \in 0..MaxExponent, m \in Mantissas} \ {0}

InitBits ==
    /\ blocks = <<genesis_block>>
    /\ block_height_index = [h \in {0} |-> <<genesis_block.hash>>]
    /\ chain_tips = <<genesis_block.hash>>
    /\ best_chain_tip = genesis_block.hash
    /\ utxo_set = _apply_block(EmptyMap, genesis_block)
    /\ mempool = EmptyMempool
    /\ difficulty_bits \in CompactValues
    /\ returned = [op |-> "init", result |-> 0]
    /\ miner = NoMiner

\* target_to_compact_bits(compact_bits_to_target(blockchain._difficulty_bits))
RoundTrip ==
    /\ returned.op = "init"
    /\ returned' = [op |-> "round_trip",
                    result |-> target_to_compact_bits(compact_bits_to_target(difficulty_bits))]
    /\ UNCHANGED <<blocks, block_height_index, chain_tips, best_chain_tip, utxo_set, mempool,
                   difficulty_bits, miner>>

NextBits == RoundTrip

SpecBits == InitBits /\ [][NextBits]_vars

(***************************************************************************)
(* Difficulty queries: blocks on the best tip, one second or               *)
(* DEV_TARGET_BLOCK_TIME after it, carrying the bits due at their height,  *)
(* and callers asking for the current difficulty up to MaxQueries times in *)
(* a row.                                                                  *)
(***************************************************************************)
AddQueryBlock ==
    /\ Len(blocks) <= MaxQueryBlocks
    /\ \E dt \in {1, DEV_TARGET_BLOCK_TIME}, current_time \in Clock :
          CallAddBlock(MakeBlock(best_chain_tip, <<Coinbase(BestTip.height + 1, "a")>>,
                                 Timestamp(BestTip.header) + dt,
                                 _get_next_difficulty(Self, BestTip.height + 1)[1], 1),
                       current_time)

\* a call of blockchain.get_current_difficulty()
GetCurrentDifficulty ==
    /\ returned.op = "get_current_difficulty" => returned.calls < MaxQueries
    /\ \E r \in {get_current_difficulty(Self)} :
          /\ difficulty_bits' = r[2]
          /\ returned' = [op |-> "get_current_difficulty", result |-> r[1],
                          calls |-> IF returned.op = "get_current_difficulty"
                                    THEN returned.calls + 1 ELSE 1]
    /\ UNCHANGED <<blocks, block_height_index, chain_tips, best_chain_tip, utxo_set, mempool,
                   miner>>

NextQuery == AddQueryBlock \/ GetCurrentDifficulty

SpecQuery == Init /\ [][NextQuery]_vars

(***************************************************************************)
(* The mempool on its own: callers add transactions, priced against a      *)
(* UTXO set of three outputs of 5, remove them by txid and clear those a   *)
(* block confirms.                                                         *)
(***************************************************************************)
QueueOutpoints == {<<Txid(Transaction(<<>>, <<TransactionOutput(5, "a")>>)), n>> : n \in 0..2}

RECURSIVE QueueUtxosOver(_)
QueueUtxosOver(outpoints) ==
    IF outpoints = {} THEN EmptyMap
    ELSE LET o == CHOOSE x \in outpoints : TRUE
         IN  add_utxo(QueueUtxosOver(outpoints \ {o}), o[1], o[2],
                      TransactionOutput(5, "a"), 1, FALSE)

QueueUtxos == QueueUtxosOver(QueueOutpoints)

\* spends of the three outputs paying a fee of 1 or 2, and a spend of an
\* outpoint the UTXO set does not hold
QueueTxs ==
    {Spend(o, v, "b") : o \in QueueOutpoints, v \in 3..4} \cup {Spend(UnknownOutpoint, 1, "b")}

\* mempool.add_transaction(tx, utxo_set)
QueueAdd ==
    \E tx \in QueueTxs :
        \E r \in {add_transaction(mempool, tx, QueueUtxos)} :
            /\ Len(r.mempool.transactions) <= MaxQueued
            /\ mempool' = r.mempool
            /\ returned' = [op |-> "add_transaction", result |-> r.result, tx |-> tx]
            /\ UNCHANGED <<blocks, block_height_index, chain_tips, best_chain_tip, utxo_set,
                           difficulty_bits, miner>>

\* mempool.remove_transaction(txid)
QueueRemove ==
    \E tx \in QueueTxs :
        /\ mempool' = remove_transaction(mempool, Txid(tx))
        /\ returned' = [op |-> "remove_transaction", result |-> Txid(tx) \in MempoolTxids(mempool)]
        /\ UNCHANGED <<blocks, block_height_index, chain_tips, best_chain_tip, utxo_set,
                       difficulty_bits, miner>>

\* mempool.clear_confirmed(block) for a block of a coinbase and two
\* transactions; the result tells whether the count removed is above 0
QueueClear ==
    \E t1 \in QueueTxs, t2 \in QueueTxs :
        /\ mempool' = clear_confirmed(mempool, MakeBlock(best_chain_tip,
                                                        <<Coinbase(1, "a"), t1, t2>>,
                                                        genesis_timestamp, difficulty_bits, 1))
        /\ returned' = [op |-> "clear_confirmed",
                        result |-> Len(mempool'.transactions) < Len(mempool.transactions)]
        /\ UNCHANGED <<blocks, block_height_index, chain_tips, best_chain_tip, utxo_set,
                       difficulty_bits, miner>>

NextQueue == QueueAdd \/ QueueRemove \/ QueueClear

SpecQueue == Init /\ [][NextQueue]_vars

(***************************************************************************)
(* The nonce search of Miner.mine_block (src/src/mining/miner.py) on one   *)
(* Block object, step by step, with stop() called from another thread and  *)
(* with readers of header.hash.                                            *)
(***************************************************************************)
\* BlockHeader.hash, the property: the cached value once there is one
header_hash(_hash, header) == IF _hash = ZeroHash THEN HeaderHash(header) ELSE _hash

\* int(hash, 16) of a value header.hash returned
HashValue(hash) == HashInt(hash[2])

\* Block.get_coinbase finds a coinbase
has_coinbase(transactions) == transactions # <<>> /\ IsCoinbase(transactions[1])

\* mine_block is between its first statement and its return or raise
Searching == miner.pc \in {"while", "for", "hash"}

\* mine_block has returned or raised
Ended == miner.pc \in {"returned", "cancelled", "TypeError"}

\* create_block_template(...) for a block on the genesis block, which reads
\* the txid of the coinbase for the Merkle root; or a Block built without
\* transactions
CreateBlock ==
    /\ miner.pc = "none"
    /\ \E block \in {create_block_template(genesis_block.hash, 1, DEV_GENESIS_DIFFICULTY_BITS,
                                            <<>>, "a", get_block_reward(1),
                                            genesis_timestamp + DEV_TARGET_BLOCK_TIME),
                     Block(BlockHeader(genesis_block.hash, ZeroHash,
                                       genesis_timestamp + DEV_TARGET_BLOCK_TIME,
                                       DEV_GENESIS_DIFFICULTY_BITS, 0), <<>>)} :
          miner' = [miner EXCEPT !.pc = "idle", !.header = block.header,
                                 !.transactions = block.transactions,
                                 !._txid = IF block.transactions = <<>> THEN ZeroHash
                                           ELSE Txid(block.transactions[1])]
    /\ UNCHANGED <<state_vars, returned>>

\* some code reads block.header.hash, before mine_block is called or after
\* it has returned
ReadHeaderHash ==
    /\ miner.pc \in {"idle", "returned"}
    /\ miner' = [miner EXCEPT !._hash = header_hash(miner._hash, miner.header)]
    /\ UNCHANGED <<state_vars, returned>>

\* a thread enters Miner(instant_mine=False).mine_block(block, target): the
\* target is derived from the difficulty bits, or given as 1
CallMineBlock ==
    /\ miner.pc = "idle"
    /\ \E target \in {compact_bits_to_target(Bits(miner.header)), <<1, 0>>} :
          miner' = [miner EXCEPT !.pc = "called", !.target = target]
    /\ UNCHANGED <<state_vars, returned>>

\* self._mining = True, the first statement of mine_block, and the locals
\* set before the loop
SetMining ==
    /\ miner.pc = "called"
    /\ miner' = [miner EXCEPT !.pc = "while", !._mining = TRUE, !.extra_nonce = 0,
                              !.nonce = 0]
    /\ UNCHANGED <<state_vars, returned>>

\* while self._mining: ... raise RuntimeError("Mining was stopped externally.")
WhileCheck ==
    /\ miner.pc = "while"
    /\ miner' = IF miner._mining THEN [miner EXCEPT !.pc = "for", !.nonce = 0]
                ELSE [miner EXCEPT !.pc = "cancelled"]
    /\ UNCHANGED <<state_vars, returned>>

\* for nonce in range(max_nonce): if not self._mining: raise RuntimeError(...)
ForCheck ==
    /\ miner.pc = "for"
    /\ miner.nonce < max_nonce
    /\ miner' = IF miner._mining THEN [miner EXCEPT !.pc = "hash"]
                ELSE [miner EXCEPT !.pc = "cancelled"]
    /\ UNCHANGED <<state_vars, returned>>

\* block.header.nonce = nonce; block_hash = block.header.calculate_hash();
\* if int(block_hash, 16) < target: return block
TryNonce ==
    /\ miner.pc = "hash"
    /\ \E header \in {WithNonce(miner.header, miner.nonce)} :
          miner' = IF ~TargetLE(miner.target, HashInt(header))
                   THEN [miner EXCEPT !.header = header, !.pc = "returned"]
                   ELSE [miner EXCEPT !.header = header, !.pc = "for",
                                      !.nonce = miner.nonce + 1]
    /\ UNCHANGED <<state_vars, returned>>

\* the range is exhausted: extra_nonce += 1; self._handle_extra_nonce(block,
\* extra_nonce). Without a coinbase _handle_extra_nonce returns at once; with
\* one it evaluates signature_script + extra_nonce_bytes, a str plus bytes,
\* which raises TypeError before anything is assigned
RollExtraNonce ==
    /\ miner.pc = "for"
    /\ miner.nonce = max_nonce
    /\ miner.extra_nonce < MaxExtraNonce
    /\ miner' = IF has_coinbase(miner.transactions)
                THEN [miner EXCEPT !.pc = "TypeError", !.extra_nonce = miner.extra_nonce + 1]
                ELSE [miner EXCEPT !.pc = "while", !.extra_nonce = miner.extra_nonce + 1]
    /\ UNCHANGED <<state_vars, returned>>

\* Miner.stop, called by another thread at any moment
Stop ==
    /\ miner.pc # "none"
    /\ miner' = [miner EXCEPT !._mining = FALSE, !.stopped = miner.stopped \/ Searching,
                              !.early_stop = miner.early_stop \/ miner.pc = "called"]
    /\ UNCHANGED <<state_vars, returned>>

NextSearch ==
    \/ CreateBlock
    \/ ReadHeaderHash
    \/ CallMineBlock
    \/ SetMining
    \/ WhileCheck
    \/ ForCheck
    \/ TryNonce
    \/ RollExtraNonce
    \/ Stop

SpecSearch == Init /\ [][NextSearch]_vars


(***************************************************************************)
(* The clock of the chain: blocks on the best tip and, while there is one  *)
(* tip, on its parent.  A block is stamped DEV_TARGET_BLOCK_TIME after its *)
(* parent or, while fewer than MaxOffBeat stored blocks are stamped        *)
(* otherwise, at the median of the timestamps before it or one second      *)
(* later.                                                                  *)
(***************************************************************************)
MaxOffBeat == 2

TimeStamps(parent) ==
    LET off_beat == {i \in 1..Len(blocks) :
                        /\ PrevHash(blocks[i].header) # ZeroHash
                        /\ Timestamp(blocks[i].header)
                               # Timestamp(get_block(blocks, PrevHash(blocks[i].header)).header)
                                   + DEV_TARGET_BLOCK_TIME}
    IN  {Timestamp(parent.header) + DEV_TARGET_BLOCK_TIME}
        \cup (IF Cardinality(off_beat) < MaxOffBeat
              THEN {calculate_median_time(get_previous_timestamps(blocks, parent.hash, 11))
                        + late : late \in 0..1}
              ELSE {})

TimeBlocks ==
    LET parents == {BestTip} \cup (IF BestTip.height >= 1 /\ Len(chain_tips) = 1
                                   THEN {get_block(blocks, PrevHash(BestTip.header))}
                                   ELSE {})
    IN  UNION {{MakeBlock(parent.hash, <<Coinbase(parent.height + 1, "a")>>, timestamp,
                          _get_next_difficulty(Self, parent.height + 1)[1], 1) :
                   timestamp \in TimeStamps(parent)} : parent \in parents}

AddTimeBlock ==
    /\ Len(blocks) <= MaxTimeBlocks
    /\ \E block \in TimeBlocks, current_time \in Clock : CallAddBlock(block, current_time)

NextTime == AddTimeBlock

SpecTime == Init /\ [][NextTime]_vars


(***************************************************************************)
(* Properties                                                              *)
(***************************************************************************)
BestChain == get_chain(blocks, best_chain_tip)

\* the last call was an add_block that returned True / False
AcceptedNext == returned'.op = "add_block" /\ returned'.result
RejectedNext == returned'.op = "add_block" /\ ~returned'.result

\* the block a successful add_block has just stored
NewBlock == blocks'[Len(blocks')]

\* the UTXO set obtained by applying the blocks of a chain, from number i on
RECURSIVE Replay(_, _, _)
Replay(utxos, chain, i) ==
    IF i > Len(chain) THEN utxos ELSE Replay(_apply_block(utxos, chain[i]), chain, i + 1)

\* C1: after every add_block the UTXO set holds exactly the outputs that the
\* blocks of the chain from genesis to best_chain_tip created and did not
\* spend: no entry of a block outside the chain, no unspent output missing.
C1_UtxoOfBestChain == DOMAIN utxo_set = DOMAIN Replay(EmptyMap, BestChain, 1)

\* (2^n - 1) \div m by long division, bit by bit
RECURSIVE OnesDiv(_, _, _, _)
OnesDiv(n, m, q, r) ==
    IF n = 0 THEN q
    ELSE IF 2 * r + 1 >= m THEN OnesDiv(n - 1, m, 2 * q + 1, 2 * r + 1 - m)
    ELSE OnesDiv(n - 1, m, 2 * q, 2 * r + 1)

\* the work of a block: 2^256 \div (target + 1), for a target m * 256^k with
\* k >= 1 (the quotient is (2^(256 - 8k) - 1) \div m)
Work(bits) ==
    LET target == compact_bits_to_target(bits)
    IN  OnesDiv(256 - 8 * target[2], target[1], 0, 0)

\* cumulative work of the chain ending in a stored block
ChainWork(tip_hash) ==
    LET chain == get_chain(blocks, tip_hash)
    IN  SumSeq([i \in 1..Len(chain) |-> Work(Bits(chain[i].header))])

\* C2: after every add_block, best_chain_tip ends a chain of maximum
\* cumulative work: no chain of stored blocks has strictly more work.
C2_MostWork ==
    \A i \in 1..Len(blocks) : ChainWork(best_chain_tip) >= ChainWork(blocks[i].hash)

\* C3: an accepted block whose parent is not the best tip and whose height
\* does not exceed the best height is only stored as a side branch: the best
\* tip, the UTXO set and the mempool stay as they were.
C3_SideBranchFrame ==
    [][(/\ AcceptedNext
        /\ PrevHash(NewBlock.header) # best_chain_tip
        /\ NewBlock.height <= get_chain_height(blocks, best_chain_tip))
          => UNCHANGED <<best_chain_tip, utxo_set, mempool>>]_vars

\* C4: whenever add_block returns False the blockchain is as it was before
\* the call: blocks, height index, tips, best tip, UTXO set, mempool and the
\* stored difficulty bits.
C4_RejectedUnchanged == [][RejectedNext => UNCHANGED state_vars]_vars



\* the value of the output an input refers to, 0 when no stored transaction has it
InputValue(inp) ==
    LET made == {t \in StoredTxs : Txid(t) = inp[1] /\ inp[2] >= 0 /\ inp[2] < Len(Outputs(t))}
    IN  IF made = {} THEN 0 ELSE Outputs(CHOOSE t \in made : TRUE)[inp[2] + 1][1]

InputValues(tx) == [k \in 1..Len(Inputs(tx)) |-> InputValue(Inputs(tx)[k])]

RECURSIVE SumOver(_, _)
SumOver(f, S) ==
    IF S = {} THEN 0
    ELSE LET x == CHOOSE y \in S : TRUE IN f[x] + SumOver(f, S \ {x})

\* C5: every non-coinbase transaction of an accepted block spends at least
\* as much as it creates (sum of input values >= sum of output values).
C5_ValueConserved ==
    \A i \in 1..Len(blocks) : \A tx \in Range(blocks[i].transactions) :
        ~IsCoinbase(tx) => SumSeq(InputValues(tx)) >= SumSeq(OutputValues(tx))

\* every input of tx, from input k on, is in the working set and no two are the same
RECURSIVE InputsUnspent(_, _, _)
InputsUnspent(tx, working, k) ==
    IF k > Len(Inputs(tx)) THEN TRUE
    ELSE /\ has_utxo(working, Inputs(tx)[k][1], Inputs(tx)[k][2])
         /\ InputsUnspent(tx, remove_utxo(working, Inputs(tx)[k][1], Inputs(tx)[k][2]), k + 1)

\* every non-coinbase transaction, from number i on, spends outputs that are
\* unspent in the working set, which then loses them and gains its outputs
RECURSIVE AllUnspent(_, _, _, _)
AllUnspent(transactions, working, height, i) ==
    IF i > Len(transactions) THEN TRUE
    ELSE IF IsCoinbase(transactions[i]) THEN AllUnspent(transactions, working, height, i + 1)
    ELSE /\ InputsUnspent(transactions[i], working, 1)
         /\ AllUnspent(transactions,
                       AddOutputs(RemoveInputs(working, transactions[i], 1), transactions[i], 1,
                                  height, FALSE),
                       height, i + 1)

\* C6: add_block accepts a block only if every input of every non-coinbase
\* transaction refers to an output that is unspent in the best-chain UTXO set
\* or made by an earlier transaction of the block, and not yet consumed in the
\* block; a block with two spends of one outpoint is rejected.
C6_InputsUnspent ==
    [][AcceptedNext /\ PrevHash(NewBlock.header) # ZeroHash
          => AllUnspent(NewBlock.transactions, utxo_set, NewBlock.height, 1)]_vars

\* the heights of the stored blocks whose coinbase has this txid
CoinbaseHeights(txid) ==
    {blocks[i].height : i \in {j \in 1..Len(blocks) : Txid(blocks[j].transactions[1]) = txid}}

\* C7: an accepted block at height h spends a coinbase output made at height
\* c only if h - c >= COINBASE_MATURITY.
C7_CoinbaseMaturity ==
    \A i \in 1..Len(blocks) : \A tx \in Range(blocks[i].transactions) :
        ~IsCoinbase(tx) =>
            \A inp \in Range(Inputs(tx)) : \A c \in CoinbaseHeights(inp[1]) :
                blocks[i].height - c >= COINBASE_MATURITY

\* C8: between calls, the values in the UTXO set add up to the subsidies of
\* the heights 0 .. best height.
C8_Supply ==
    SumOver([k \in DOMAIN utxo_set |-> utxo_set[k][1]], DOMAIN utxo_set)
        = SumSeq([i \in 1..(get_chain_height(blocks, best_chain_tip) + 1) |->
                     get_block_reward(i - 1)])

\* a block of the apply set, from number i on, fails the transaction
\* validation against the UTXO set the replay has reached
RECURSIVE ReplayFails(_, _, _)
ReplayFails(utxos, blocks_to_apply, i) ==
    IF i > Len(blocks_to_apply) THEN FALSE
    ELSE \/ validate_block_transactions(blocks_to_apply[i].transactions, utxos,
                                        blocks_to_apply[i].height)
               \in {"ValidationError", "ValueError"}
         \/ ReplayFails(_apply_block(utxos, blocks_to_apply[i]), blocks_to_apply, i + 1)

\* the add_block that stored NewBlock started a reorganization
Reorganizes ==
    /\ AcceptedNext
    /\ PrevHash(NewBlock.header) # best_chain_tip
    /\ _detect_fork(blocks', NewBlock.hash, PrevHash(NewBlock.header))
    /\ NewBlock.height > get_chain_height(blocks, best_chain_tip)
    /\ _find_common_ancestor(blocks', best_chain_tip, NewBlock.hash) # ZeroHash

\* C9: when a block of the apply set fails validation during the replay of a
\* reorganization, the reorganization is rolled back: best tip and UTXO set
\* are those of the original chain.
C9_ReorgRollback ==
    [][LET ancestor == _find_common_ancestor(blocks', best_chain_tip, NewBlock.hash)
           unwound == UnwindAll([Self EXCEPT !.blocks = blocks'],
                                BlocksBackTo(blocks', best_chain_tip, ancestor), 1)
           blocks_to_apply == Reverse(BlocksBackTo(blocks', NewBlock.hash, ancestor))
       IN  (Reorganizes /\ ReplayFails(unwound.utxo_set, blocks_to_apply, 1))
              => (best_chain_tip' = best_chain_tip /\ utxo_set' = utxo_set)]_vars


\* C10: after every add_block and every mempool add_transaction, no
\* transaction of the mempool has the txid of a transaction in a block of the
\* best chain.
C10_MempoolUnconfirmed ==
    \A i \in 1..Len(BestChain) : \A tx \in Range(BestChain[i].transactions) :
        Txid(tx) \notin MempoolTxids(mempool)

\* the (previous txid, output index) pairs of the inputs of a transaction
ConsumedPairs(tx) == {<<inp[1], inp[2]>> : inp \in Range(Inputs(tx))}

\* the outpoints a transaction consumes: the pairs of its inputs that are not
\* the marker of a coinbase input
ConsumedOutpoints(tx) ==
    {<<inp[1], inp[2]>> : inp \in {x \in Range(Inputs(tx)) : ~InputIsCoinbase(x)}}

C12_MineRaisesHeight ==
    [][returned'.op = "mine_next_block"
          => returned'.result /\ get_chain_height(blocks', best_chain_tip') = Height + 1]_vars

\* the non-coinbase transactions of the blocks of a segment
SegmentTxs(segment) ==
    UNION {{t \in Range(segment[i].transactions) : ~IsCoinbase(t)} : i \in 1..Len(segment)}

\* C13: when add_block moves best_chain_tip to a block that does not descend
\* from the old tip, every non-coinbase transaction of the abandoned segment
\* that is in no block of the new chain is in the mempool afterwards, unless it
\* conflicts with a transaction of the mempool.
C13_AbandonedRequeued ==
    [][(/\ AcceptedNext
        /\ best_chain_tip' # best_chain_tip
        /\ best_chain_tip \notin Range(Ancestry(blocks', best_chain_tip')))
       => LET ancestor == _find_common_ancestor(blocks', best_chain_tip, best_chain_tip')
              abandoned == BlocksBackTo(blocks', best_chain_tip, ancestor)
              new_chain == get_chain(blocks', best_chain_tip')
          IN  \A t \in SegmentTxs(abandoned) \ SegmentTxs(new_chain) :
                  \/ Txid(t) \in MempoolTxids(mempool')
                  \/ is_double_spend(mempool, t)]_vars

\* C14: in development mode, when the timestamps of the blocks of the first
\* interval (heights 0 to 9) span exactly 50 seconds, the difficulty bits
\* expected at height 10 are the bits of the genesis block.
C14_NoChangeAtTargetTimespan ==
    (/\ Height = DEV_DIFFICULTY_ADJUSTMENT_INTERVAL - 1
     /\ Timestamp(BestTip.header) - genesis_timestamp = target_timespan)
    => _get_next_difficulty(Self, Height + 1)[1] = DEV_GENESIS_DIFFICULTY_BITS

\* C15: every stored block with a parent whose height is not a multiple of the
\* adjustment interval carries the difficulty bits of its parent, on the best
\* chain and on side branches.
C15_BitsInherited ==
    \A i \in 1..Len(blocks) :
        (PrevHash(blocks[i].header) # ZeroHash /\ blocks[i].height % adjustment_interval # 0)
        => Bits(blocks[i].header) = Bits(get_block(blocks, PrevHash(blocks[i].header)).header)

\* C16: at a height that is a multiple of the adjustment interval the target of
\* the new bits is at least a quarter of the target of the stored bits (the
\* last unit of the three-byte coefficient is allowed for rounding) and at most
\* four times that target.
C16_RetargetWithinFactor ==
    (Height + 1) % adjustment_interval = 0
    => LET old == compact_bits_to_target(difficulty_bits)
           new == compact_bits_to_target(_get_next_difficulty(Self, Height + 1)[1])
       IN  /\ TargetAtLeast(<<MAX_ADJUSTMENT_FACTOR * (new[1] + 1), new[2]>>, old)
           /\ TargetAtLeast(<<MAX_ADJUSTMENT_FACTOR * old[1], old[2]>>, new)

\* C17: when the mempool holds a transaction that a wallet built and signed
\* from unspent outputs, the next mine_next_block that draws from the mempool
\* returns a block containing it; afterwards the transaction has left the
\* mempool, whose size is one less, and the recipient's balance in the UTXO set
\* has grown by the amount sent (it equals the amount for a recipient that
\* held nothing).
C17_SendConfirmed ==
    [][(returned'.op = "mine_next_block" /\ mempool.transactions # <<>>)
       => LET tx == mempool.transactions[1]
              amount == Outputs(tx)[1][1]
              recipient == Outputs(tx)[1][2]
          IN  /\ returned'.result
              /\ tx \in Range(NewBlock.transactions)
              /\ Txid(tx) \notin MempoolTxids(mempool')
              /\ Len(mempool'.transactions) = Len(mempool.transactions) - 1
              /\ get_balance(utxo_set', recipient)
                    = get_balance(utxo_set, recipient) + amount]_vars

\* C18: whenever Wallet.send returns a transaction, that transaction is in the
\* mempool when send returns.
C18_SentInMempool ==
    [][(returned'.op = "send" /\ returned'.result)
       => Txid(returned'.tx) \in MempoolTxids(mempool')]_vars

\* a member of the mempool consumes an outpoint that tx consumes
SharesOutpoint(mp, tx) ==
    \E i \in 1..Len(mp.transactions) :
        ConsumedOutpoints(mp.transactions[i]) \cap ConsumedOutpoints(tx) # {}

C20_ParentStored ==
    \A i \in 1..Len(blocks) :
        PrevHash(blocks[i].header) # ZeroHash => HasBlock(blocks, PrevHash(blocks[i].header))

\* add_block has just refused a block whose parent is not stored, while blocks
\* other than the genesis block are stored
C20_Witness ==
    /\ returned.op = "add_block"
    /\ ~returned.result
    /\ ~returned.parent_known
    /\ \E i \in 1..Len(blocks) : PrevHash(blocks[i].header) # ZeroHash

\* C21: every stored block has height 0 exactly when its previous_block_hash
\* is the all-zeros hash; every other one has its parent's height plus 1; and
\* each is listed in the height index under its own height and no other
C21_Heights ==
    \A i \in 1..Len(blocks) :
        /\ blocks[i].height = 0 <=> PrevHash(blocks[i].header) = ZeroHash
        /\ \A j \in 1..Len(blocks) :
              blocks[j].hash = PrevHash(blocks[i].header)
                  => blocks[i].height = blocks[j].height + 1
        /\ blocks[i].height \in DOMAIN block_height_index
        /\ \A h \in DOMAIN block_height_index :
              blocks[i].hash \in Range(block_height_index[h]) <=> h = blocks[i].height

\* add_block has just accepted a block and a block of height 2 is stored
C21_Witness ==
    /\ returned.op = "add_block"
    /\ returned.result
    /\ \E i \in 1..Len(blocks) : blocks[i].height = 2

\* C22: chain_tips holds exactly the hashes of the stored blocks that have no
\* child among the stored blocks, each of them once
C22_TipsAreChildless ==
    /\ Range(chain_tips)
          = {blocks[i].hash : i \in {k \in 1..Len(blocks) :
                ~\E j \in 1..Len(blocks) : PrevHash(blocks[j].header) = blocks[k].hash}}
    /\ Cardinality(Range(chain_tips)) = Len(chain_tips)

\* add_block has just accepted a block while two branches are stored: there
\* are two tips and a stored block that is no tip
C22_Witness ==
    /\ returned.op = "add_block"
    /\ returned.result
    /\ Len(chain_tips) = 2
    /\ Len(blocks) = 3

\* C23: for every height, get_block_by_height returns the block of that
\* height on the chain from genesis to best_chain_tip, and None when that
\* chain has no block of that height
C23_ByHeightOnBestChain ==
    \A h \in 0..Len(blocks) :
        LET found == get_block_by_height(blocks, block_height_index, best_chain_tip, h)
            on_chain == {i \in 1..Len(BestChain) : BestChain[i].height = h}
        IN  IF on_chain = {} THEN found = ZeroHash
            ELSE \E i \in on_chain : found = BestChain[i].hash

\* C24: once stop() has been called while the search loop of mine_block is
\* running, the next check of the flag leaves mine_block with the
\* cancellation error, and mine_block ends in no other way than with that
\* error or with the block of the iteration that was under way
C24_StopCancels ==
    [][miner.stopped =>
          /\ (/\ miner.pc = "while" \/ (miner.pc = "for" /\ miner.nonce < max_nonce)
              /\ miner'.pc # miner.pc) => miner'.pc = "cancelled"
          /\ (~Ended /\ Ended') => miner'.pc \in {"cancelled", "returned"}]_vars

\* C25: when the search has tried every nonce of the range without a hit,
\* mining goes on: the extra nonce grows, the coinbase script, and with it
\* the coinbase txid and the Merkle root of the header, change, and the
\* search is back at the head of the loop, which restarts at nonce 0
C25_ExtraNonceRolls ==
    [][(miner.pc = "for" /\ miner.nonce = max_nonce /\ miner'.pc # miner.pc) =>
          /\ miner'.pc = "while"
          /\ miner'.extra_nonce > miner.extra_nonce
          /\ has_coinbase(miner.transactions) =>
                /\ miner'.transactions[1] # miner.transactions[1]
                /\ miner'._txid = Txid(miner'.transactions[1])
                /\ MerkleRootOf(miner'.header) # MerkleRootOf(miner.header)]_vars

\* C26: the header hash of a block returned by mine_block, as header.hash
\* reports it, is within the target of the header's difficulty bits
C26_MinedMeetsTarget ==
    miner.pc = "returned" =>
        TargetLE(HashValue(header_hash(miner._hash, miner.header)), get_target(miner.header))

\* C27: whenever mine_block is not under way, header.hash is the hash of the
\* header's current fields and the txid of the first transaction is the hash
\* of its current serialization
C27_CachesCurrent ==
    (miner.pc # "none" /\ ~Searching) =>
        /\ header_hash(miner._hash, miner.header) = HeaderHash(miner.header)
        /\ miner._txid # ZeroHash => miner._txid = Txid(miner.transactions[1])

\* candidate blocks on the best tip that break two rules at once
TwoFaultBlocks ==
    LET good == Template(BestTip, "b", <<>>, difficulty_bits)
        h == BestTip.height + 1
        over == Spend(CoinbaseOutpoint(genesis_block), INITIAL_REWARD + 1, "a")
    IN  { \* no proof of work, unknown parent
          Block(BlockHeader(UnknownOutpoint[1], MerkleRootOf(good.header),
                            Timestamp(good.header), difficulty_bits, 0), good.transactions),
          \* wrong Merkle root, timestamp too far ahead
          Block(BlockHeader(best_chain_tip, ZeroHash, TooFarAhead, difficulty_bits, 1),
                good.transactions),
          \* timestamp too far ahead, no coinbase
          MakeBlock(best_chain_tip, <<>>, TooFarAhead, difficulty_bits, 1),
          \* coinbase above the subsidy, input unknown
          MakeBlock(best_chain_tip, <<create_coinbase(h, "b", get_block_reward(h) + 1, 0),
                                      Spend(UnknownOutpoint, 1, "a")>>,
                    Timestamp(good.header), difficulty_bits, 1),
          \* outputs above the inputs, the same transaction twice
          Template(BestTip, "b", <<over, over>>, difficulty_bits),
          \* outputs above the inputs, unexpected difficulty bits
          Template(BestTip, "b", <<over>>, GENESIS_DIFFICULTY_BITS),
          \* the same transaction twice, unexpected difficulty bits
          Template(BestTip, "b", <<Spend(UnknownOutpoint, 1, "a"), Spend(UnknownOutpoint, 1, "a")>>,
                   GENESIS_DIFFICULTY_BITS) }

\* rule 7 as the specification states it, for the transactions of a block at
\* this height: an input is missing or spent twice, a coinbase output is
\* spent before COINBASE_MATURITY blocks, or the outputs exceed the inputs
TransactionSetViolated(transactions, height) ==
    \/ ~AllUnspent(transactions, utxo_set, height, 1)
    \/ \E i \in 1..Len(transactions) :
          /\ ~IsCoinbase(transactions[i])
          /\ \/ SumSeq(InputValues(transactions[i])) < SumSeq(OutputValues(transactions[i]))
             \/ \E inp \in Range(Inputs(transactions[i])) :
                   /\ has_utxo(utxo_set, inp[1], inp[2])
                   /\ utxo_set[_make_key(inp[1], inp[2])][4]
                   /\ height - utxo_set[_make_key(inp[1], inp[2])][3] < COINBASE_MATURITY

\* the earliest rule, in the order 1 to 9, that a block on a stored parent or
\* on no parent violates; "ok" when there is none
EarliestViolated(block, current_time) ==
    LET prev_hash == PrevHash(block.header)
        height == IF prev_hash = ZeroHash THEN 0 ELSE get_block(blocks, prev_hash).height + 1
    IN  IF ~meets_difficulty_target(block.header) THEN "pow"
        ELSE IF prev_hash # ZeroHash /\ ~HasBlock(blocks, prev_hash) THEN "parent"
        ELSE IF calculate_merkle_root(block.transactions) # MerkleRootOf(block.header)
             THEN "merkle"
        ELSE IF /\ prev_hash # ZeroHash
                /\ validate_timestamp(Timestamp(block.header),
                                      get_previous_timestamps(blocks, prev_hash, 11),
                                      current_time) # "ok"
             THEN "timestamp"
        ELSE IF validate_block_size(block.transactions) # "ok" THEN "size"
        ELSE IF validate_coinbase(block.transactions, height) # "ok" THEN "coinbase"
        ELSE IF prev_hash # ZeroHash /\ TransactionSetViolated(block.transactions, height)
             THEN "transactions"
        ELSE IF validate_no_duplicate_txids(block.transactions) # "ok" THEN "duplicate_txids"
        ELSE IF prev_hash # ZeroHash /\ Bits(block.header) # _get_next_difficulty(Self, height)[1]
             THEN "difficulty"
        ELSE "ok"

\* C28: validate_block rejects a block for the earliest rule it violates in
\* the order proof-of-work, parent, Merkle root, timestamp, size, coinbase,
\* transaction set, duplicate txids, difficulty bits; a rejection by a rule
\* before the last leaves untouched what only the last rule changes
C28_EarliestRule ==
    \A block \in FaultyBlocks \cup TwoFaultBlocks, current_time \in Clock :
        /\ validate_block(Self, block, current_time).result
              = EarliestViolated(block, current_time)
        /\ validate_block(Self, block, current_time).result \notin {"ok", "difficulty"}
              => validate_block(Self, block, current_time).difficulty_bits = difficulty_bits

\* transaction lists for a block on the best tip whose coinbase claims the
\* subsidy and 0, 1 or 2 units more, with and without a transaction that pays
\* a fee of one unit
FeeClaims ==
    LET h == BestTip.height + 1
        pays_one == Spend(CoinbaseOutpoint(genesis_block), INITIAL_REWARD - 1, "a")
    IN  {<<create_coinbase(h, "b", get_block_reward(h) + extra, 0)>> \o payload :
            extra \in 0..2, payload \in {<<>>, <<pays_one>>}}
        \cup {<<pays_one>>, <<Coinbase(h, "b"), Coinbase(h, "a")>>}

\* the fees of the non-coinbase transactions: input values minus output values
TotalFees(transactions) ==
    SumSeq([i \in 1..Len(transactions) |->
               IF IsCoinbase(transactions[i]) THEN 0
               ELSE SumSeq(InputValues(transactions[i])) - SumSeq(OutputValues(transactions[i]))])

\* C29: a block passes the coinbase rule exactly when its first transaction
\* is its only coinbase and the coinbase outputs add up to at most the block
\* reward of the height plus the fees of the other transactions
C29_CoinbaseWithFees ==
    \A transactions \in FeeClaims :
        validate_coinbase(transactions, BestTip.height + 1) = "ok"
            <=> /\ IsCoinbase(transactions[1])
                /\ \A i \in 2..Len(transactions) : ~IsCoinbase(transactions[i])
                /\ SumSeq(OutputValues(transactions[1]))
                      <= get_block_reward(BestTip.height + 1) + TotalFees(transactions)

\* the timestamps of the blocks before a stored block on its own branch, the
\* genesis block first, at most the last 11 of them
Preceding(stored, block) ==
    LET branch == get_chain(stored, PrevHash(block.header))
        from == IF Len(branch) > 11 THEN Len(branch) - 11 ELSE 0
    IN  [i \in 1..(Len(branch) - from) |-> Timestamp(branch[from + i].header)]

\* the lower median: the value with at most (n - 1) \div 2 values below it
\* and more than (n - 1) \div 2 values at or below it
LowerMedian(values) ==
    LET n == Len(values)
        below(v) == Cardinality({i \in 1..n : values[i] < v})
        upto(v) == Cardinality({i \in 1..n : values[i] <= v})
    IN  CHOOSE v \in Range(values) : below(v) <= (n - 1) \div 2 /\ upto(v) > (n - 1) \div 2

\* C30: a block with at least 11 ancestors that add_block accepts is stamped
\* strictly after the lower median of the timestamps of the 11 blocks before
\* it on its own branch; a block with fewer than 11 ancestors, sound in every
\* other respect, is accepted whatever its timestamp is against that median
C30_MedianTimePast ==
    /\ [][AcceptedNext /\ Len(Preceding(blocks', NewBlock)) = 11
              => Timestamp(NewBlock.header) > LowerMedian(Preceding(blocks', NewBlock))]_vars
    /\ [](\A block \in TimeBlocks, current_time \in Clock :
              Len(Preceding(blocks, block)) < 11 /\ ~HasBlock(blocks, HeaderHash(block.header))
                  => add_block(Self, block, current_time).result)

\* add_block has just accepted a block with 11 or more ancestors that is
\* stamped before its parent, and a stored block with fewer than 11 ancestors
\* is stamped at or before the median of the timestamps before it
C30_Witness ==
    /\ returned.op = "add_block"
    /\ returned.result
    /\ LET last == blocks[Len(blocks)]
       IN  /\ Len(Preceding(blocks, last)) = 11
           /\ Len(get_chain(blocks, last.hash)) >= 12
           /\ Timestamp(last.header)
                  < Timestamp(get_block(blocks, PrevHash(last.header)).header)
    /\ \E i \in 2..Len(blocks) :
          /\ Len(Preceding(blocks, blocks[i])) < 11
          /\ Timestamp(blocks[i].header) <= LowerMedian(Preceding(blocks, blocks[i]))

\* the fee rate of a transaction against the UTXO set it was priced with:
\* <<fee, size>>, the rate 0 when an input is not in the set
QueueRate(tx) ==
    LET known == \A k \in 1..Len(Inputs(tx)) : <<Inputs(tx)[k][1], Inputs(tx)[k][2]>> \in QueueOutpoints
    IN  IF known THEN <<5 * Len(Inputs(tx)) - SumSeq(OutputValues(tx)), TxSize(tx)>> ELSE <<0, 1>>

\* C31: get_transactions(None) lists exactly the transactions in the mempool,
\* each once, by non-increasing fee rate, and get_transactions(limit) is the
\* first limit entries of that list
C31_FeeOrderedPrefix ==
    LET all == get_transactions(mempool, <<>>)
    IN  /\ Len(all) = Len(mempool.transactions)
        /\ Range(all) = Range(mempool.transactions)
        /\ \A i \in 1..Len(all), j \in 1..Len(all) :
              i < j => QueueRate(all[i])[1] * QueueRate(all[j])[2]
                          >= QueueRate(all[j])[1] * QueueRate(all[i])[2]
        /\ \A limit \in 0..(MaxQueued + 1) :
              get_transactions(mempool, <<limit>>)
                  = SubSeq(all, 1, IF limit < Len(all) THEN limit ELSE Len(all))

\* remove_transaction or clear_confirmed has just taken a transaction out, and
\* of the two left the one that arrived first has the lower fee rate
C31_Witness ==
    /\ returned.op \in {"remove_transaction", "clear_confirmed"}
    /\ returned.result
    /\ Len(mempool.transactions) = 2
    /\ Len(mempool.fee_index) = 2
    /\ RateLess(QueueRate(mempool.transactions[1]), QueueRate(mempool.transactions[2]))

\* C32: importing the export of the present state into a fresh instance
\* yields the same blocks with the same heights, the same best_chain_tip, the
\* same utxo_set and the same mempool transactions
C32_ImportRestores ==
    \A current_time \in Clock :
        LET restored == import_from_json(Self, current_time)
        IN  /\ Range(restored.blocks) = Range(blocks)
            /\ restored.best_chain_tip = best_chain_tip
            /\ restored.utxo_set = utxo_set
            /\ Range(restored.mempool.transactions) = Range(mempool.transactions)

\* C33: for every stored block and every index i of its transactions, the
\* proof that the Merkle tree of the block's txids generates for index i
\* verifies txid_i against the merkle_root of the block's header
C33_ProofsVerify ==
    \A b \in Range(blocks) :
        LET txids == [i \in 1..Len(b.transactions) |-> Txid(b.transactions[i])]
            tree == build_tree(txids)
        IN  \A i \in 1..Len(txids) :
                verify_proof(txids[i], get_proof(tree, i - 1), MerkleRootOf(b.header))

\* a compact value is canonical: positive, the sign bit (bit 23) clear, the
\* mantissa in its shortest form (its top byte is not zero unless the next
\* byte has its high bit set), and no mantissa byte below the unit
Canonical(b) ==
    LET exponent == b \div 16777216
        mantissa == b % 16777216
    IN  /\ b > 0
        /\ exponent >= 1
        /\ mantissa < 8388608
        /\ mantissa >= 32768
        /\ exponent < 3 => (mantissa % Pow(256, 3 - exponent)) = 0

\* C34: for every canonical compact value b,
\* target_to_compact_bits(compact_bits_to_target(b)) = b
C34_CompactRoundTrip ==
    returned.op = "round_trip" /\ Canonical(difficulty_bits) => returned.result = difficulty_bits

\* the round trip was taken for a canonical value whose mantissa has a zero
\* top byte, as 0x1d00ffff
C34_Witness ==
    /\ returned.op = "round_trip"
    /\ Canonical(difficulty_bits)
    /\ difficulty_bits % 16777216 < 65536
    /\ difficulty_bits \div 16777216 > 3

\* C35: when add_block accepts a block and applies it to the UTXO set,
\* unwinding the block from the result gives the UTXO set from before, entry
\* for entry
C35_UnwindInvertsApply ==
    [][AcceptedNext /\ best_chain_tip' = NewBlock.hash
           /\ utxo_set' = _apply_block(utxo_set, NewBlock)
         => _unwind_block(utxo_set', blocks', NewBlock) = utxo_set]_vars

\* C36: over every call of add_block the height of best_chain_tip stays or
\* grows
C36_HeightNeverDecreases ==
    [][returned'.op = "add_block"
         => get_chain_height(blocks', best_chain_tip') >= get_chain_height(blocks, best_chain_tip)]_vars

\* C37: after add_block has accepted onto the best chain a block with a
\* transaction that consumes an outpoint, no transaction of the mempool
\* consumes that outpoint
C37_ConflictsLeaveMempool ==
    [][AcceptedNext /\ PrevHash(NewBlock.header) = best_chain_tip
           /\ best_chain_tip' = NewBlock.hash
         => \A t \in Range(NewBlock.transactions), q \in Range(mempool'.transactions) :
                IsCoinbase(t) \/ ConsumedOutpoints(t) \cap ConsumedOutpoints(q) = {}]_vars

\* C38: a call of get_current_difficulty leaves the stored difficulty bits
\* as they were, and a call that follows another one without a block in
\* between returns what that one returned
C38_DifficultyQueryPure ==
    [][returned'.op = "get_current_difficulty"
         => /\ difficulty_bits' = difficulty_bits
            /\ returned.op = "get_current_difficulty" => returned'.result = returned.result]_vars

\* C39: when stop() is called after a thread has entered mine_block and
\* before the search has begun, that call of mine_block tries no nonce: it
\* is still before its loop or has left with the cancellation error
C39_StopNeverLost ==
    miner.early_stop => miner.pc \in {"called", "while", "cancelled"}
====
